---------------------------- MODULE Spec2Model ----------------------------
(***************************************************************************)
(* Straight-skeleton polygon buffering (geo-buf).                          *)
(*                                                                         *)
(* Numbers: an f64 is a fixed-point integer in units of 1/Scale.  Every    *)
(* formula below rounds once, to the nearest unit, so that inputs with     *)
(* integer coordinates and axis-parallel edges are computed exactly (their *)
(* events live on the half-integer grid), as they are in f64.              *)
(* Indices: the vertex table and the vertex queue are sequences, so an     *)
(* index of the model is the index of the code plus one; NoParent stands   *)
(* for usize::MAX.                                                         *)
(***************************************************************************)
EXTENDS Integers, Sequences, FiniteSets, TLC

\* ------------------------------------------------------------------ numbers

\* Units per 1.0.
Scale == 1000

\* The tolerance of feq / fneq / fleq / fgeq, in units.
EPS == 4

\* Let(e, LAMBDA v : body) is body with v bound to the value of e, which is
\* computed once.
Let(v, F(_)) == F(v)

Abs(a) == IF a < 0 THEN -a ELSE a

Sgn(a) == IF a < 0 THEN -1 ELSE IF a > 0 THEN 1 ELSE 0

\* a / b rounded to the nearest integer (half away from zero); b # 0.
RDiv(a, b) == Sgn(a) * Sgn(b) * ((2 * Abs(a) + Abs(b)) \div (2 * Abs(b)))

\* f64 product and quotient of two fixed-point numbers.
FMul(a, b) == RDiv(a * b, Scale)

FDiv(a, b) == RDiv(a * Scale, b)

RECURSIVE SqrtSearch(_, _, _)
SqrtSearch(n, lo, hi) ==
    IF lo >= hi THEN lo
    ELSE LET mid == (lo + hi + 1) \div 2
         IN  IF mid * mid <= n THEN SqrtSearch(n, mid, hi)
                               ELSE SqrtSearch(n, lo, mid - 1)

\* The integer nearest to the square root of n >= 0.
ISqrt(n) ==
    Let(SqrtSearch(n, 0, 46340), LAMBDA r : IF n - r * r > r THEN r + 1 ELSE r)

feq(a, b) == Abs(a - b) < EPS

fneq(a, b) == ~feq(a, b)

fleq(a, b) == a < b \/ feq(a, b)

fgeq(a, b) == a > b \/ feq(a, b)

\* ------------------------------------------------------------- coordinates

Coord(x, y) == <<x * Scale, y * Scale>>

CAdd(a, b) == <<a[1] + b[1], a[2] + b[2]>>

CSub(a, b) == <<a[1] - b[1], a[2] - b[2]>>

CNeg(a) == <<-a[1], -a[2]>>

CScale(a, t) == <<FMul(a[1], t), FMul(a[2], t)>>

CDivide(a, t) == <<FDiv(a[1], t), FDiv(a[2], t)>>

\* a.0 * b.1 - a.1 * b.0 in squared units (no rounding).
RawOuter(a, b) == a[1] * b[2] - a[2] * b[1]

outer_product(a, b) == RDiv(RawOuter(a, b), Scale)

norm(a) == ISqrt(a[1] * a[1] + a[2] * a[2])

dist_coord(a, b) == norm(CSub(a, b))

\* Approximate equality of coordinates (Coordinate::eq).
coord_eq(a, b) == feq(a[1], b[1]) /\ feq(a[2], b[2])

\* Lexicographic order of coordinates (derived PartialOrd).
coord_lt(a, b) == a[1] < b[1] \/ (a[1] = b[1] /\ a[2] < b[2])

Unit(a) == CDivide(a, norm(a))

\* -------------------------------------------------------------------- rays

Ray(o, a) == [origin |-> o, angle |-> a]

ray_new(src, dst) == Ray(src, CSub(dst, src))

point_by_ratio(r, t) == CAdd(r.origin, CScale(r.angle, t))

reverse(r) == Ray(r.origin, CNeg(r.angle))

\* +1 left of the ray, -1 right of it, 0 on its supporting line.
orientation(r, p) ==
    Let(outer_product(r.angle, CSub(p, r.origin)),
        LAMBDA res : IF feq(res, 0) THEN 0 ELSE IF res > 0 THEN 1 ELSE -1)

is_parallel(a, b) == feq(outer_product(a.angle, b.angle), 0)

\* Orthogonal distance from p to the supporting line of r.
dist_ray(p, r) == RDiv(Abs(RawOuter(r.angle, CSub(p, r.origin))), norm(r.angle))

\* The bisector of two rays from `origin`: along the sum of the two unit
\* directions, or perpendicular to them when they are parallel; it points to
\* the right of `self` when orient holds and to its left otherwise (the
\* propagation side of the wavefront).
Toward(self, dir, origin, orient) ==
    Let(RawOuter(self.angle, dir),
        LAMBDA side : Ray(origin, IF (IF orient THEN side > 0 ELSE side < 0)
                                  THEN CNeg(dir) ELSE dir))

bisector(self, rhs, origin, orient) ==
    Let(Unit(self.angle),
        LAMBDA u1 : Toward(self,
                           IF is_parallel(self, rhs) THEN <<u1[2], -u1[1]>>
                           ELSE CAdd(u1, Unit(rhs.angle)),
                           origin, orient))

\* Parameters (on a, on b) of the point where the supporting lines meet.
RayParams(a, b) ==
    Let(outer_product(a.angle, b.angle),
        LAMBDA op : <<FDiv(outer_product(CSub(b.origin, a.origin), b.angle), op),
                      FDiv(outer_product(CSub(b.origin, a.origin), a.angle), op)>>)

\* Do the two half-lines meet?  Parallel rays never do (intersect fails on
\* them, and its callers test is_intersect first).
is_intersect(a, b) ==
    /\ ~is_parallel(a, b)
    /\ Let(RayParams(a, b), LAMBDA ij : fgeq(ij[1], 0) /\ fgeq(ij[2], 0))

\* The point where the supporting lines of two non-parallel rays meet.
AlongBy(a, num, op) ==
    <<a.origin[1] + RDiv(a.angle[1] * num, op),
      a.origin[2] + RDiv(a.angle[2] * num, op)>>

intersect(a, b) ==
    AlongBy(a, outer_product(CSub(b.origin, a.origin), b.angle),
            outer_product(a.angle, b.angle))

\* ------------------------------------------------------------ vertex table

NoParent == 0

Tree(axis, left_ray, right_ray, parent, time_elapsed) ==
    [kind |-> "Tree", axis |-> axis, left_ray |-> left_ray,
     right_ray |-> right_ray, parent |-> parent, time_elapsed |-> time_elapsed]

Split(anchor, location, split_left, split_right, time_elapsed) ==
    [kind |-> "Split", anchor |-> anchor, location |-> location,
     split_left |-> split_left, split_right |-> split_right,
     time_elapsed |-> time_elapsed]

Root(location, time_elapsed) ==
    [kind |-> "Root", location |-> location, time_elapsed |-> time_elapsed]

InitTreeOf(r1, r2, r3) ==
    Tree(Ray(r3.origin, CDivide(r3.angle, dist_ray(point_by_ratio(r3, Scale), r2))),
         r1, r2, NoParent, 0)

\* init_tree_vertex with the bisector taken on the other side.
init_tree_vertex_outward(lv, cv, rv, orient) ==
    InitTreeOf(ray_new(cv, lv), ray_new(cv, rv),
               bisector(ray_new(cv, lv), ray_new(cv, rv), cv, ~orient))

init_tree_vertex(lv, cv, rv, orient) ==
    InitTreeOf(ray_new(cv, lv), ray_new(cv, rv),
               bisector(ray_new(cv, lv), ray_new(cv, rv), cv, orient))

NewTreeOf(axis, left_ray, right_ray) ==
    Tree(axis, left_ray, right_ray, NoParent, dist_ray(axis.origin, left_ray))

SpeedNormalized(b, left_ray) ==
    Ray(b.origin,
        CDivide(b.angle, Abs(dist_ray(point_by_ratio(b, Scale), left_ray)
                             - dist_ray(point_by_ratio(b, 0), left_ray))))

\* new_tree_vertex without the normalisation of the speed.
new_tree_vertex_unnormalized(location, left_ray, right_ray, orient) ==
    NewTreeOf(bisector(left_ray, right_ray, location, orient), left_ray, right_ray)

new_tree_vertex(location, left_ray, right_ray, orient) ==
    NewTreeOf(SpeedNormalized(bisector(left_ray, right_ray, location, orient), left_ray),
              left_ray, right_ray)

inner_location(v) == IF v.kind = "Tree" THEN v.axis.origin ELSE v.location

time_elapsed(v) == v.time_elapsed

unwrap_ray(v) == v.axis

unwrap_base_ray(v) == <<v.left_ray, v.right_ray>>

set_parent(v, nparent) == [v EXCEPT !.parent = nparent]

\* ------------------------------------------------------------ vertex queue
\* A slot of the active vertex list: `index` is the real-index (the vertex
\* table record) occupying the slot, left / right are pointer-indices.

Node(index, left, right) ==
    [index |-> index, left |-> left, right |-> right, done |-> FALSE]

lv(q, p) == q[p].left

rv(q, p) == q[p].right

get_real_index(q, p) == q[p].index

\* One slot per vertex of a loop of n vertices whose first slot is base + 1.
LoopNodes(base, n) ==
    [k \in 1..n |-> Node(base + k,
                         base + (IF k = 1 THEN n ELSE k - 1),
                         base + (IF k = n THEN 1 ELSE k + 1))]

RECURSIVE vq_from_loops(_, _)
vq_from_loops(lens, base) ==
    IF lens = <<>> THEN <<>>
    ELSE LoopNodes(base, Head(lens)) \o vq_from_loops(Tail(lens), base + Head(lens))

\* Unlink slot `from` and give its right neighbour the real-index new_real.
remove_and_set(q, from, new_real) ==
    LET l == q[from].left
        r == q[from].right
        q1 == [q EXCEPT ![from].done = TRUE]
        q2 == [q1 EXCEPT ![l].right = r]
        q3 == [q2 EXCEPT ![r].left = l]
    IN  [q3 EXCEPT ![r].index = new_real]

\* Cut the loop at the anchor: the anchor's slot keeps its left neighbour,
\* takes left_real and is followed by the right end of the struck edge; a
\* clone of the struck slot, inserted to its right, takes right_real and is
\* followed by the anchor's old right neighbour.
split_and_set(q, anchor, struck, left_real, right_real) ==
    LET clone == Len(q) + 1
        ra == q[anchor].right
        srv == q[struck].right
        q1 == Append(q, Node(right_real, struck, ra))
        q2 == [q1 EXCEPT ![struck].right = clone]
        q3 == [q2 EXCEPT ![ra].left = clone]
        q4 == [q3 EXCEPT ![anchor].right = srv]
        q5 == [q4 EXCEPT ![srv].left = anchor]
    IN  [q5 EXCEPT ![anchor].index = left_real]

\* Compaction reclaims the storage of done slots only: the retained slots
\* keep their pointer-indices, links and real-indices.
cleanup(q) == q

RECURSIVE WalkLoop(_, _, _, _)
WalkLoop(q, start, p, n) ==
    IF n = 0 \/ p = start THEN <<>>
    ELSE <<p>> \o WalkLoop(q, start, q[p].right, n - 1)

\* The slots of the loop through p, from p rightwards.
LoopOf(q, p) == <<p>> \o WalkLoop(q, p, q[p].right, Len(q) - 1)

SeqSet(sq) == {sq[i] : i \in DOMAIN sq}

RECURSIVE IterFrom(_, _, _)
IterFrom(q, p, seen) ==
    IF p > Len(q) THEN <<>>
    ELSE IF q[p].done \/ p \in seen THEN IterFrom(q, p + 1, seen)
    ELSE Let(LoopOf(q, p),
             LAMBDA loop : [k \in 1..Len(loop) |-> <<p, loop[k], q[loop[k]].index>>]
                           \o IterFrom(q, p + 1, seen \cup SeqSet(loop)))

\* (loop id, pointer-index, real-index) of every active slot, loop by loop,
\* each loop from its lowest slot rightwards.
iter(q) == IterFrom(q, 1, {})

\* ------------------------------------------------------------------ events

VertexEvent(time, merge_from, merge_to) ==
    [kind |-> "VertexEvent", time |-> time, merge_from |-> merge_from,
     merge_to |-> merge_to]

EdgeEvent(time, split_from, split_into, split_to_left, split_to_right) ==
    [kind |-> "EdgeEvent", time |-> time, split_from |-> split_from,
     split_into |-> split_into, split_to_left |-> split_to_left,
     split_to_right |-> split_to_right]

unwrap_time(e) == e.time

ShrinkEvent(time, location, left_vertex, right_vertex, left_real, right_real, tie_break) ==
    [kind |-> "ShrinkEvent", time |-> time, location |-> location,
     left_vertex |-> left_vertex, right_vertex |-> right_vertex,
     left_real |-> left_real, right_real |-> right_real, tie_break |-> tie_break]

SplitEvent(time, location, anchor_vertex, anchor_real) ==
    [kind |-> "SplitEvent", time |-> time, location |-> location,
     anchor_vertex |-> anchor_vertex, anchor_real |-> anchor_real]

\* A secondary key with the kind-bits exchanged: shrink before split.
TimelineKeyShrinkFirst(e) ==
    IF e.kind = "ShrinkEvent"
    THEN <<0, e.tie_break, e.location[1], e.location[2], e.left_real, e.right_real>>
    ELSE <<1, 0, e.location[1], e.location[2], e.anchor_real, e.anchor_real>>

\* The secondary key of Timeline::partial_cmp.
TimelineKey(e) ==
    IF e.kind = "ShrinkEvent"
    THEN <<1, e.tie_break, e.location[1], e.location[2], e.left_real, e.right_real>>
    ELSE <<0, 0, e.location[1], e.location[2], e.anchor_real, e.anchor_real>>

RECURSIVE LexLess(_, _)
LexLess(a, b) ==
    IF a = <<>> THEN FALSE
    ELSE IF Head(a) # Head(b) THEN Head(a) < Head(b)
    ELSE LexLess(Tail(a), Tail(b))

\* A comparison that puts no entry before another: the priority queue may
\* pop any of its entries.
timeline_unordered(a, b) == FALSE

\* Timeline::partial_cmp = Less: times that differ by the tolerance or more
\* decide; otherwise the secondary key does.
timeline_lt(a, b) ==
    IF fneq(a.time, b.time) THEN a.time < b.time
    ELSE LexLess(TimelineKey(a), TimelineKey(b))

\* The entries the priority queue may pop next: those no entry precedes.
PopCandidates(pq) ==
    {i \in DOMAIN pq : \A j \in DOMAIN pq : ~timeline_lt(pq[j], pq[i])}

RemoveAt(sq, i) == SubSeq(sq, 1, i - 1) \o SubSeq(sq, i + 1, Len(sq))

\* The shrink event of the pair (l, rv(l)), if their trajectories meet.
ShrinkAt(cp, q, vv, l, r) ==
    ShrinkEvent(dist_ray(cp, unwrap_base_ray(vv[get_real_index(q, l)])[1]), cp,
                l, r, get_real_index(q, l), get_real_index(q, r),
                dist_coord(unwrap_ray(vv[get_real_index(q, l)]).origin,
                           unwrap_ray(vv[get_real_index(q, r)]).origin))

ShrinkOfPair(q, vv, l) ==
    LET lv_ray == unwrap_ray(vv[get_real_index(q, l)])
        rv_ray == unwrap_ray(vv[get_real_index(q, rv(q, l))])
    IN  IF is_intersect(lv_ray, rv_ray)
        THEN <<ShrinkAt(intersect(lv_ray, rv_ray), q, vv, l, rv(q, l))>>
        ELSE <<>>

\* The events make_shrink_event inserts: for (cv, rv(cv)) and, unless
\* is_init, for (lv(cv), rv(lv(cv))); none for a loop of two slots.
make_shrink_event(cv, q, vv, is_init) ==
    IF rv(q, cv) = lv(q, cv) THEN <<>>
    ELSE ShrinkOfPair(q, vv, cv)
         \o (IF is_init THEN <<>> ELSE ShrinkOfPair(q, vv, lv(q, cv)))

\* Is the record a reflex vertex for the propagation side?  (The two early
\* returns of find_split_vertex.)
IsReflex(v, orient) ==
    LET op == outer_product(v.left_ray.angle, v.right_ray.angle)
    IN  IF orient THEN ~fleq(op, 0) ELSE ~fgeq(op, 0)

\* A skip of the two edges incident to the anchor cv only.
SkipsIncident(q, cv, sv) == sv = cv \/ rv(q, sv) = cv

\* The edges find_split_vertex passes over for the anchor cv.
SkipsEdge(q, cv, sv) ==
    sv = cv \/ sv = rv(q, cv) \/ rv(q, sv) = cv \/ rv(q, sv) = lv(q, cv)

\* The point where the anchor's trajectory meets the wavefront of the edge
\* that starts at slot sv, as <<found, point>>.
MeetsAxis(b_ray, axis) ==
    IF is_intersect(b_ray, axis) THEN <<TRUE, intersect(b_ray, axis)>>
    ELSE <<FALSE, <<0, 0>>>>

RealIntersection(q, vv, cv, sv, orient) ==
    LET c == vv[get_real_index(q, cv)]
        left_ray == unwrap_base_ray(c)[1]
        right_ray == unwrap_base_ray(c)[2]
        base_ray == unwrap_base_ray(vv[get_real_index(q, sv)])[2]
    IN  MeetsAxis(IF is_parallel(left_ray, base_ray)
                  THEN bisector(right_ray, reverse(base_ray),
                                intersect(right_ray, base_ray), ~orient)
                  ELSE bisector(left_ray, base_ray,
                                intersect(left_ray, base_ray), orient),
                  unwrap_ray(c))

\* The side filters of find_split_vertex on a candidate point p.
PassesFilters(q, vv, sv, p, is_init, orient) ==
    LET sv_real == get_real_index(q, sv)
        srv_real == get_real_index(q, rv(q, sv))
        base == orientation(unwrap_base_ray(vv[sv_real])[2], p)
        so == orientation(unwrap_ray(vv[sv_real]), p)
        sro == orientation(unwrap_ray(vv[srv_real]), p)
    IN  IF is_init THEN (IF orient THEN ~(base < 0) ELSE ~(base > 0))
        ELSE IF orient THEN ~(so >= 0) /\ ~(base < 0) /\ ~(sro < 0)
        ELSE ~(so <= 0) /\ ~(base > 0) /\ ~(sro > 0)

\* The candidate <<dist, point, sv, sv_real>> of the edge at sv, if any.
CandidateAt(ri, q, vv, cv, sv, is_init, orient) ==
    IF ~ri[1] THEN <<>>
    ELSE IF ~PassesFilters(q, vv, sv, ri[2], is_init, orient) THEN <<>>
    ELSE <<<<dist_ray(ri[2], unwrap_base_ray(vv[get_real_index(q, cv)])[2]),
             ri[2], sv, get_real_index(q, sv)>>>>

SplitCandidate(q, vv, cv, sv, is_init, orient) ==
    IF SkipsEdge(q, cv, sv) THEN <<>>
    ELSE CandidateAt(RealIntersection(q, vv, cv, sv, orient),
                     q, vv, cv, sv, is_init, orient)

CandidateKey(c) == <<c[1], c[2][1], c[2][2], c[3], c[4]>>

RECURSIVE InsertSorted(_, _)
InsertSorted(sq, c) ==
    IF sq = <<>> THEN <<c>>
    ELSE IF LexLess(CandidateKey(c), CandidateKey(Head(sq))) THEN <<c>> \o sq
    ELSE <<Head(sq)>> \o InsertSorted(Tail(sq), c)

RECURSIVE SortCandidates(_)
SortCandidates(sq) ==
    IF sq = <<>> THEN <<>>
    ELSE InsertSorted(SortCandidates(Tail(sq)), Head(sq))

RECURSIVE CandidatesOver(_, _, _, _, _, _)
CandidatesOver(it, q, vv, cv, is_init, orient) ==
    IF it = <<>> THEN <<>>
    ELSE SplitCandidate(q, vv, cv, Head(it)[2], is_init, orient)
         \o CandidatesOver(Tail(it), q, vv, cv, is_init, orient)

FirstUnlessInit(ret, is_init) ==
    IF ~is_init /\ ret # <<>> THEN <<ret[1]>> ELSE ret

\* find_split_vertex that finds no edge.
find_no_split_vertex(cv, q, vv, is_init, orient) == <<>>

find_split_vertex(cv, q, vv, is_init, orient) ==
    IF ~IsReflex(vv[get_real_index(q, cv)], orient) THEN <<>>
    ELSE FirstUnlessInit(
             SortCandidates(CandidatesOver(iter(q), q, vv, cv, is_init, orient)),
             is_init)

RECURSIVE SplitEventsOf(_, _, _)
SplitEventsOf(resv, cv, cv_real) ==
    IF resv = <<>> THEN <<>>
    ELSE <<SplitEvent(Head(resv)[1], Head(resv)[2], cv, cv_real)>>
         \o SplitEventsOf(Tail(resv), cv, cv_real)

make_split_event(cv, q, vv, orient) ==
    SplitEventsOf(find_split_vertex(cv, q, vv, TRUE, orient), cv,
                  get_real_index(q, cv))

\* The queue after an event of the log, with the slots apply_event returns:
\* <<queue, collapsed, first, second>>.  A vertex event whose loop is left
\* with two slots marks both done and returns the real-index of the other.
\* A collapse check that leaves the last two slots of a loop active.
CollapseKeepingSlots(q1, cv) ==
    IF lv(q1, cv) = rv(q1, cv)
    THEN <<q1, TRUE, q1[lv(q1, cv)].index, 0>>
    ELSE <<q1, FALSE, cv, 0>>

\* A collapse that marks only the survivor done and leaves its neighbour.
CollapseOneSlot(q1, cv) ==
    IF lv(q1, cv) = rv(q1, cv)
    THEN <<[q1 EXCEPT ![cv].done = TRUE], TRUE, q1[lv(q1, cv)].index, 0>>
    ELSE <<q1, FALSE, cv, 0>>

Collapse(q1, cv) ==
    IF lv(q1, cv) = rv(q1, cv)
    THEN <<[[q1 EXCEPT ![lv(q1, cv)].done = TRUE] EXCEPT ![cv].done = TRUE],
           TRUE, q1[lv(q1, cv)].index, 0>>
    ELSE <<q1, FALSE, cv, 0>>

apply_event(q, event) ==
    IF event.kind = "VertexEvent"
    THEN Collapse(remove_and_set(q, event.merge_from, event.merge_to),
                  rv(q, event.merge_from))
    ELSE <<cleanup(split_and_set(q, event.split_from, event.split_into,
                                 event.split_to_left, event.split_to_right)),
           FALSE, event.split_from, Len(q) + 1>>

\* ------------------------------------------------------------------ inputs
\* A polygon is an exterior ring and interior rings; a ring is the list of
\* its distinct coordinates (the closing repeat of the first is implicit).
\* Exteriors are counter-clockwise and interiors clockwise.

Polygon(exterior, interiors) == [exterior |-> exterior, interiors |-> interiors]

\* The largest side of the rectangles among the inputs.
MaxSide == 2

Rect(x, y, w, h) ==
    <<Coord(x, y), Coord(x + w, y), Coord(x + w, y + h), Coord(x, y + h)>>

Rectangles == {<<Polygon(Rect(0, 0, w, h), <<>>)>> : w \in 1..MaxSide, h \in 1..MaxSide}

Concave == <<Polygon(<<Coord(0, 0), Coord(4, 0), Coord(4, 4), Coord(2, 1), Coord(0, 4)>>, <<>>)>>

TwoSquares == <<Polygon(Rect(0, 0, 2, 2), <<>>), Polygon(Rect(3, 3, 2, 2), <<>>)>>

Holed ==
    <<Polygon(Rect(0, 0, 6, 6),
              <<<<Coord(2, 2), Coord(2, 4), Coord(4, 4), Coord(4, 2)>>>>)>>

Triangle == <<Polygon(<<Coord(0, 0), Coord(4, 0), Coord(0, 3)>>, <<>>)>>

\* A triangle of sides 2.994, 3.992 and 4.990, whose sides meet at time
\* 0.998, and apart from it a bar of width 2.002, whose short sides collapse
\* at time 1.001: two times that differ by less than the tolerance, on
\* either side of the offset distance 1.
TriangleAndBar ==
    <<Polygon(<<<<0, 0>>, <<3992, 0>>, <<0, 2994>>>>, <<>>),
      Polygon(<<<<10000, 10000>>, <<12002, 10000>>, <<12002, 14000>>,
                <<10000, 14000>>>>, <<>>)>>

\* A square and, after it in the vector, a square with a square hole: the
\* exterior that contains the hole is not the first one.
SquareAndHoled ==
    <<Polygon(Rect(10, 0, 1, 1), <<>>),
      Polygon(Rect(0, 0, 6, 6),
              <<<<Coord(2, 2), Coord(2, 4), Coord(4, 4), Coord(4, 2)>>>>)>>

Inputs ==
    Rectangles \cup {Concave, TwoSquares, Holed, Triangle, TriangleAndBar,
                     SquareAndHoled}

\* The offset distances of the reconstructions: the multiples of OffsetStep
\* up to MaxOffsetSteps of them, and the distance 1.
OffsetStep == 50

MaxOffsetSteps == 10

Offsets == {k * OffsetStep : k \in 0..MaxOffsetSteps} \cup {Scale}

\* Reconstructions from one skeleton are counted up to MaxCalls.
MaxCalls == 3

\* The points, signed distances and resolutions given to buffer_point.
Points == {Coord(x, y) : x \in {0, 1}, y \in {-1, 0, 1, 5}}

MaxHalves == 2

PointDistances == {k * (Scale \div 2) : k \in (-MaxHalves)..MaxHalves}

MaxResolution == 12

RECURSIVE Flatten(_)
Flatten(sqs) == IF sqs = <<>> THEN <<>> ELSE Head(sqs) \o Flatten(Tail(sqs))

\* The rings of a polygon vector in table order: each polygon's exterior,
\* then its interiors.
RingsOf(polys) ==
    Flatten([i \in DOMAIN polys |-> <<polys[i].exterior>> \o polys[i].interiors])

RingVertices(ring, orient) ==
    [cur \in DOMAIN ring |->
        LET len == Len(ring)
            prv == IF cur = 1 THEN len ELSE cur - 1
            nxt == IF cur = len THEN 1 ELSE cur + 1
        IN  init_tree_vertex(ring[prv], ring[cur], ring[nxt], orient)]

initialize_from_polygon_vector(polys, orient) ==
    Flatten([i \in DOMAIN RingsOf(polys) |-> RingVertices(RingsOf(polys)[i], orient)])

vq_initialize_from_polygon_vector(polys) ==
    vq_from_loops([i \in DOMAIN RingsOf(polys) |-> Len(RingsOf(polys)[i])], 0)

\* ---------------------------------------------------------- reconstruction

VARIABLE output                \* what the last completed operation returned
\* A line string is the sequence of its coordinates; a ring repeats its
\* first coordinate at the end.

is_closed(ls) == ls = <<>> \/ ls[1] = ls[Len(ls)]

close(ls) == IF is_closed(ls) THEN ls ELSE Append(ls, ls[1])

RECURSIVE ShoelaceFrom(_, _)
ShoelaceFrom(ls, k) ==
    IF k >= Len(ls) THEN 0
    ELSE ls[k][1] * ls[k + 1][2] - ls[k + 1][1] * ls[k][2]
         + ShoelaceFrom(ls, k + 1)

\* Twice the signed area of a closed ring.
signed_area(ls) == ShoelaceFrom(ls, 1)

SideOfArea(a) ==
    IF a > 0 THEN "CounterClockwise" ELSE IF a < 0 THEN "Clockwise" ELSE "None"

winding_order(ls) ==
    IF Len(ls) < 4 \/ ~is_closed(ls) THEN "None" ELSE SideOfArea(signed_area(ls))

\* The side of the edge a -> b on which p lies: positive on its left.
EdgeSide(a, b, p) ==
    (b[1] - a[1]) * (p[2] - a[2]) - (b[2] - a[2]) * (p[1] - a[1])

OnEdge(a, b, p) ==
    /\ EdgeSide(a, b, p) = 0
    /\ (p[1] - a[1]) * (p[1] - b[1]) <= 0
    /\ (p[2] - a[2]) * (p[2] - b[2]) <= 0

OnRing(ls, p) == \E k \in 1..(Len(ls) - 1) : OnEdge(ls[k], ls[k + 1], p)

RECURSIVE WindingFrom(_, _, _)
WindingFrom(ls, p, k) ==
    IF k >= Len(ls) THEN 0
    ELSE (IF ls[k][2] <= p[2] /\ ls[k + 1][2] > p[2]
             /\ EdgeSide(ls[k], ls[k + 1], p) > 0 THEN 1
          ELSE IF ls[k][2] > p[2] /\ ls[k + 1][2] <= p[2]
             /\ EdgeSide(ls[k], ls[k + 1], p) < 0 THEN -1
          ELSE 0)
         + WindingFrom(ls, p, k + 1)

Inside(ls, p) == ~OnRing(ls, p) /\ WindingFrom(ls, p, 1) # 0

\* Polygon e contains the ring ls: no point of ls lies outside e's exterior
\* and some point of it lies strictly inside.
contains(e, ls) ==
    /\ \A k \in DOMAIN ls : Inside(e.exterior, ls[k]) \/ OnRing(e.exterior, ls[k])
    /\ \E k \in DOMAIN ls : Inside(e.exterior, ls[k])

\* The first loop of apply_vertex_queue without ls.close().
RECURSIVE CollectOpenRings(_, _, _, _, _, _)
CollectOpenRings(it, vv, offset_distance, lsv, crdv, cur_vidx) ==
    IF it = <<>>
    THEN IF cur_vidx # NoParent THEN Append(lsv, crdv) ELSE lsv
    ELSE IF Head(it)[1] # cur_vidx
    THEN CollectOpenRings(Tail(it), vv, offset_distance,
             IF cur_vidx # NoParent THEN Append(lsv, crdv) ELSE lsv,
             <<point_by_ratio(unwrap_ray(vv[Head(it)[3]]),
                              offset_distance - time_elapsed(vv[Head(it)[3]]))>>,
             Head(it)[1])
    ELSE CollectOpenRings(Tail(it), vv, offset_distance, lsv,
             Append(crdv, point_by_ratio(unwrap_ray(vv[Head(it)[3]]),
                              offset_distance - time_elapsed(vv[Head(it)[3]]))),
             cur_vidx)

\* The first loop of apply_vertex_queue: the rings of the vertex queue at
\* offset_distance. NoParent stands for the usize::MAX of cur_vidx.
RECURSIVE CollectRings(_, _, _, _, _, _)
CollectRings(it, vv, offset_distance, lsv, crdv, cur_vidx) ==
    IF it = <<>>
    THEN IF cur_vidx # NoParent THEN Append(lsv, close(crdv)) ELSE lsv
    ELSE IF Head(it)[1] # cur_vidx
    THEN CollectRings(Tail(it), vv, offset_distance,
             IF cur_vidx # NoParent THEN Append(lsv, close(crdv)) ELSE lsv,
             <<point_by_ratio(unwrap_ray(vv[Head(it)[3]]),
                              offset_distance - time_elapsed(vv[Head(it)[3]]))>>,
             Head(it)[1])
    ELSE CollectRings(Tail(it), vv, offset_distance, lsv,
             Append(crdv, point_by_ratio(unwrap_ray(vv[Head(it)[3]]),
                              offset_distance - time_elapsed(vv[Head(it)[3]]))),
             cur_vidx)

\* The second loop: every counter-clockwise ring starts a polygon.
RECURSIVE Exteriors(_)
Exteriors(lsv) ==
    IF lsv = <<>> THEN <<>>
    ELSE (IF winding_order(Head(lsv)) = "CounterClockwise"
          THEN <<Polygon(Head(lsv), <<>>)>> ELSE <<>>)
         \o Exteriors(Tail(lsv))

\* interiors_push on the polygon of slot k, whether it contains ls or not.
PushInteriorUnchecked(res, ls, k) ==
    IF k > Len(res) THEN res
    ELSE [res EXCEPT ![k].interiors = Append(@, ls)]

\* interiors_push on the first polygon, from slot k on, that contains ls.
RECURSIVE PushInterior(_, _, _)
PushInterior(res, ls, k) ==
    IF k > Len(res) THEN res
    ELSE IF contains(res[k], ls)
    THEN [res EXCEPT ![k].interiors = Append(@, ls)]
    ELSE PushInterior(res, ls, k + 1)

\* The third loop: every clockwise ring becomes a hole.
RECURSIVE Interiors(_, _)
Interiors(lsv, res) ==
    IF lsv = <<>> THEN res
    ELSE Interiors(Tail(lsv),
                   IF winding_order(Head(lsv)) = "Clockwise"
                   THEN PushInterior(res, Head(lsv), 1) ELSE res)

NestRings(lsv) == Interiors(lsv, Exteriors(lsv))

\* apply_vertex_queue that keeps the polygons of the reconstruction before.
apply_vertex_queue_accumulating(vv, q, offset_distance) ==
    output \o NestRings(CollectRings(iter(q), vv, offset_distance, <<>>, <<>>, NoParent))

apply_vertex_queue(vv, q, offset_distance) ==
    NestRings(CollectRings(iter(q), vv, offset_distance, <<>>, <<>>, NoParent))

\* get_vertex_queue: the snapshot with the logged events up to time_elapsed
\* applied; the replay stops at the first later event.
RECURSIVE Replay(_, _, _)
Replay(ret, log, t) ==
    IF log = <<>> THEN ret
    ELSE IF unwrap_time(Head(log)) <= t
    THEN Replay(cleanup(apply_event(ret, Head(log))[1]), Tail(log), t)
    ELSE ret

\* get_vertex_queue that stops at the first event at time_elapsed.
RECURSIVE ReplayBefore(_, _, _)
ReplayBefore(ret, log, t) ==
    IF log = <<>> THEN ret
    ELSE IF unwrap_time(Head(log)) < t
    THEN ReplayBefore(cleanup(apply_event(ret, Head(log))[1]), Tail(log), t)
    ELSE ret

get_vertex_queue_strict(initial, log, t) == ReplayBefore(initial, log, t)

\* get_vertex_queue that replays the whole log.
RECURSIVE ReplayAll(_, _)
ReplayAll(ret, log) ==
    IF log = <<>> THEN ret
    ELSE ReplayAll(cleanup(apply_event(ret, Head(log))[1]), Tail(log))

get_vertex_queue_unbounded(initial, log, t) == ReplayAll(initial, log)

get_vertex_queue(initial, log, t) == Replay(initial, log, t)

\* The number of logged events get_vertex_queue applies: those before the
\* first event later than time_elapsed.
RECURSIVE Replayed(_, _)
Replayed(log, t) ==
    IF log = <<>> THEN 0
    ELSE IF unwrap_time(Head(log)) <= t THEN 1 + Replayed(Tail(log), t)
    ELSE 0

\* ------------------------------------------------------------ to_linestring
\* dfs_helper carries <<visit, ret>>: the visited indices and the segments.

RECURSIVE dfs_helper(_, _, _, _)
RECURSIVE DfsRight(_, _, _)
dfs_helper(cur, visit, ret, vv) ==
    IF cur \in visit THEN <<visit, ret>>
    ELSE IF vv[cur].kind = "Root" THEN <<visit \cup {cur}, ret>>
    ELSE IF vv[cur].kind = "Tree"
    THEN IF vv[cur].parent = NoParent
         THEN <<visit \cup {cur},
                Append(ret, <<inner_location(vv[cur]),
                              point_by_ratio(unwrap_ray(vv[cur]), 5 * Scale)>>)>>
         ELSE dfs_helper(vv[cur].parent, visit \cup {cur},
                         Append(ret, <<inner_location(vv[cur]),
                                       inner_location(vv[vv[cur].parent])>>),
                         vv)
    ELSE DfsRight(vv[cur].split_right,
                  dfs_helper(vv[cur].split_left, visit \cup {cur}, ret, vv), vv)

DfsRight(cur, acc, vv) == dfs_helper(cur, acc[1], acc[2], vv)

RECURSIVE DfsEach(_, _, _)
DfsEach(it, acc, vv) ==
    IF it = <<>> THEN acc
    ELSE DfsEach(Tail(it), dfs_helper(Head(it)[3], acc[1], acc[2], vv), vv)

\* to_linestring that walks from the first initial vertex only.
to_linestring_from_first(vv, initial) ==
    dfs_helper(iter(initial)[1][3], {}, <<>>, vv)[2]

to_linestring(vv, initial) == DfsEach(iter(initial), <<{}, <<>>>>, vv)[2]

\* ------------------------------------------------------------- buffer_point
\* Angles and their sines are kept with one more decimal digit than
\* coordinates.

TrigScale == 10 * Scale

\* std::f64::consts::TAU in units of 1 / TrigScale.
TAU == 62832

SinSeries(x, x2) ==
    RDiv(x * (TrigScale
              - RDiv(x2 * (TrigScale
                           - RDiv(x2 * (TrigScale
                                        - RDiv(x2 * (TrigScale - RDiv(x2, 72)),
                                               42 * TrigScale)),
                                  20 * TrigScale)),
                     6 * TrigScale)),
         TrigScale)

\* The sine of an angle of the first quarter turn.
SinQuarter(x) == SinSeries(x, RDiv(x * x, TrigScale))

Sin(theta) ==
    IF theta <= TAU \div 4 THEN SinQuarter(theta)
    ELSE IF theta <= TAU \div 2 THEN SinQuarter(TAU \div 2 - theta)
    ELSE IF theta <= 3 * (TAU \div 4) THEN -SinQuarter(theta - TAU \div 2)
    ELSE -SinQuarter(TAU - theta)

sin_cos(theta) == <<Sin(theta), Sin((theta + TAU \div 4) % TAU)>>

\* What f64 leaves of the sine of the last angle, resolution * TAU /
\* resolution, where the exact sine is 0: in units of 1e-19. The quotient is
\* the f64 TAU except for resolutions 11 and 13, one ulp below and above it.
TurnSine(resolution) ==
    IF resolution = 11 THEN -11331 ELSE IF resolution = 13 THEN 6432 ELSE -2449

RECURSIVE Log2Floor(_)
Log2Floor(n) == IF n <= 1 THEN 0 ELSE 1 + Log2Floor(n \div 2)

\* Half the gap between the f64 y (a whole number, in units of 1 / Scale) and
\* its neighbour on the side of delta, in units of 1e-19.
HalfGap(y, delta) ==
    IF (delta < 0) = (y > 0) /\ Abs(y) \div Scale = 2 ^ Log2Floor(Abs(y) \div Scale)
    THEN 555 * 2 ^ Log2Floor(Abs(y) \div Scale)
    ELSE 1110 * 2 ^ Log2Floor(Abs(y) \div Scale)

\* The part of the f64 sum y + delta that the grid of 1 / Scale cannot hold:
\* delta itself, unless the rounding of the sum absorbs it.
Residue(y, delta) ==
    IF y = 0 THEN delta
    ELSE IF Abs(delta) > HalfGap(y, delta) THEN delta ELSE 0

\* The coordinate pushed for angle theta: <<dest_x, dest_y, residue of dest_y>>.
Dest(point, distance, sc, tiny) ==
    <<point[1] + RDiv(distance * sc[2], TrigScale),
      point[2] + RDiv(distance * sc[1], TrigScale),
      Residue(point[2], tiny)>>

\* Polygon::new closes the ring it is given.
polygon_new(exterior, interiors) ==
    Polygon(close(exterior), [k \in DOMAIN interiors |-> close(interiors[k])])

\* buffer_point that takes distance 0 for negative.
buffer_point_nonpositive(point, distance, resolution) ==
    IF distance <= 0 THEN polygon_new(<<>>, <<>>)
    ELSE polygon_new(
             [k \in 1..(resolution + 1) |->
                 Dest(point, distance, sin_cos(RDiv((k - 1) * TAU, resolution)),
                      IF k - 1 = resolution
                      THEN RDiv(distance * TurnSine(resolution), Scale) ELSE 0)],
             <<>>)

buffer_point(point, distance, resolution) ==
    IF distance < 0 THEN polygon_new(<<>>, <<>>)
    ELSE polygon_new(
             [k \in 1..(resolution + 1) |->
                 Dest(point, distance, sin_cos(RDiv((k - 1) * TAU, resolution)),
                      IF k - 1 = resolution
                      THEN RDiv(distance * TurnSine(resolution), Scale) ELSE 0)],
             <<>>)

\* ------------------------------------------------- rounded reconstruction

\* Ray::normalize: the angle becomes a unit vector.
normalize(r) == Ray(r.origin, Unit(r.angle))

\* The step of the arc sweep, 0.1 rad, in units of 1 / TrigScale.
ArcStep == TrigScale \div 10

\* Ray::rotate_by: the angle turned by theta, counterclockwise when positive;
\* theta is ArcStep or -ArcStep.
rotate_by(r, theta) ==
    Let(<<Sgn(theta) * Sin(Abs(theta)), Sin(Abs(theta) + TAU \div 4)>>,
        LAMBDA sc : Ray(r.origin,
                        <<RDiv(r.angle[1] * sc[2] - r.angle[2] * sc[1], TrigScale),
                          RDiv(r.angle[1] * sc[1] + r.angle[2] * sc[2], TrigScale)>>))

\* Skeleton::get_orientation: TRUE when the axis of the first record leaves
\* its left_ray on the left.
get_orientation(vv) ==
    orientation(unwrap_base_ray(vv[1])[1], point_by_ratio(unwrap_ray(vv[1]), Scale)) = 1

\* A test that sends every vertex to the arc sweep.
AxisNeverInsideAngle(v) == FALSE

\* The branch of apply_vertex_queue_rounded that pushes one point: the axis
\* makes the smaller angle with left_ray.
AxisInsideAngle(v) ==
    norm(CAdd(unwrap_base_ray(v)[1].angle, unwrap_ray(v).angle))
        > norm(CSub(unwrap_base_ray(v)[1].angle, unwrap_ray(v).angle))

\* The normal rays of the two base rays at the origin of the axis.
left_normal(v, o) ==
    normalize(Ray(unwrap_ray(v).origin,
                  IF o THEN <<-unwrap_base_ray(v)[1].angle[2], unwrap_base_ray(v)[1].angle[1]>>
                  ELSE <<unwrap_base_ray(v)[1].angle[2], -unwrap_base_ray(v)[1].angle[1]>>))

right_normal(v, o) ==
    normalize(Ray(unwrap_ray(v).origin,
                  IF o THEN <<unwrap_base_ray(v)[2].angle[2], -unwrap_base_ray(v)[2].angle[1]>>
                  ELSE <<-unwrap_base_ray(v)[2].angle[2], unwrap_base_ray(v)[2].angle[1]>>))

\* The sweep: push the point of the left normal, turn it by one step, stop
\* once the right normal is on the far side of it.
RECURSIVE Sweep(_, _, _, _)
Sweep(ln, rn, time_left, o) ==
    <<point_by_ratio(ln, time_left)>>
    \o Let(rotate_by(ln, IF o THEN ArcStep ELSE -ArcStep),
           LAMBDA turned :
               IF orientation(turned, point_by_ratio(rn, Scale)) = (IF o THEN -1 ELSE 1)
               THEN <<>>
               ELSE Sweep(turned, rn, time_left, o))

\* The points apply_vertex_queue_rounded pushes for the record v.
RoundedPoints(v, time_left, o) ==
    IF AxisInsideAngle(v)
    THEN <<point_by_ratio(unwrap_ray(v), time_left)>>
    ELSE Sweep(left_normal(v, o), right_normal(v, o), time_left, o)
         \o <<point_by_ratio(right_normal(v, o), time_left)>>

RECURSIVE CollectRoundedRings(_, _, _, _, _, _, _)
CollectRoundedRings(it, vv, offset_distance, o, lsv, crdv, cur_vidx) ==
    IF it = <<>>
    THEN IF cur_vidx # NoParent THEN Append(lsv, close(crdv)) ELSE lsv
    ELSE IF Head(it)[1] # cur_vidx
    THEN CollectRoundedRings(Tail(it), vv, offset_distance, o,
             IF cur_vidx # NoParent THEN Append(lsv, close(crdv)) ELSE lsv,
             RoundedPoints(vv[Head(it)[3]],
                           offset_distance - time_elapsed(vv[Head(it)[3]]), o),
             Head(it)[1])
    ELSE CollectRoundedRings(Tail(it), vv, offset_distance, o, lsv,
             crdv \o RoundedPoints(vv[Head(it)[3]],
                           offset_distance - time_elapsed(vv[Head(it)[3]]), o),
             cur_vidx)

apply_vertex_queue_rounded(vv, q, offset_distance) ==
    NestRings(CollectRoundedRings(iter(q), vv, offset_distance, get_orientation(vv),
                                  <<>>, <<>>, NoParent))

\* ------------------------------------------------------------------- state

VARIABLES
    input,                 \* the polygons given to the call
    orient,                \* TRUE: the wavefront moves inward (deflation)
    ray_vector,            \* Skeleton::ray_vector, the vertex table
    vertex_queue,          \* the simulation's active vertex queue
    initial_vertex_queue,  \* Skeleton::initial_vertex_queue
    event_pq,              \* the scheduling priority queue of init_pq
    event_queue,           \* Skeleton::event_queue, the event log
    pc,                    \* where the call stands
    call,                  \* the arguments of the last completed operation
    first                  \* the first reconstruction made from this skeleton

vars == <<input, orient, ray_vector, vertex_queue, initial_vertex_queue,
          event_pq, event_queue, pc, call, output, first>>

results == <<call, output, first>>

NoCall == [op |-> "none"]

\* A call that builds a skeleton: the vertex table and the vertex queue of
\* the input polygons.
InitSkeleton ==
    /\ input \in Inputs
    /\ orient \in BOOLEAN
    /\ ray_vector = initialize_from_polygon_vector(input, orient)
    /\ vertex_queue = vq_initialize_from_polygon_vector(input)
    /\ pc = "init_pq"

\* A call of buffer_point: no skeleton is built.
InitPoint ==
    /\ input \in Points
    /\ orient = FALSE
    /\ ray_vector = <<>>
    /\ vertex_queue = <<>>
    /\ pc = "buffer_point"

Init ==
    /\ InitSkeleton \/ InitPoint
    /\ initial_vertex_queue = <<>>
    /\ event_pq = <<>>
    /\ event_queue = <<>>
    /\ call = NoCall
    /\ output = <<>>
    /\ first = NoCall

RECURSIVE InitialEvents(_, _, _, _)
InitialEvents(it, q, vv, o) ==
    IF it = <<>> THEN <<>>
    ELSE make_shrink_event(Head(it)[2], q, vv, TRUE)
         \o make_split_event(Head(it)[2], q, vv, o)
         \o InitialEvents(Tail(it), q, vv, o)

\* init_pq up to its main loop: the snapshot and the initial events.
InitPQ ==
    /\ pc = "init_pq"
    /\ initial_vertex_queue' = vertex_queue
    /\ event_pq' = InitialEvents(iter(vertex_queue), vertex_queue, ray_vector, orient)
    /\ pc' = "loop"
    /\ UNCHANGED <<input, orient, ray_vector, vertex_queue, event_queue>>
    /\ UNCHANGED results

\* A staleness check that lets every popped shrink event fire.
ShrinkNeverStale(q, x) == FALSE

ShrinkIsStale(q, x) ==
    \/ q[x.left_vertex].done
    \/ q[x.right_vertex].done
    \/ get_real_index(q, x.left_vertex) # x.left_real
    \/ get_real_index(q, x.right_vertex) # x.right_real

\* A staleness check that lets every popped split event reach the rescan.
SplitNeverStale(q, x) == FALSE

SplitIsStale(q, x) ==
    \/ q[x.anchor_vertex].done
    \/ get_real_index(q, x.anchor_vertex) # x.anchor_real

\* A popped shrink event that fails the staleness check: `continue`.
PopStaleShrink(i) ==
    /\ event_pq[i].kind = "ShrinkEvent"
    /\ ShrinkIsStale(vertex_queue, event_pq[i])
    /\ event_pq' = RemoveAt(event_pq, i)
    /\ UNCHANGED <<input, orient, ray_vector, vertex_queue,
                   initial_vertex_queue, event_queue, pc>>
    /\ UNCHANGED results

\* A collapse that leaves the new record a Tree and makes it and the last
\* record of the loop each other's parent.
PromoteToEachOther(vv3, res, new_index) ==
    IF res[2]
    THEN [[vv3 EXCEPT ![res[3]] = set_parent(@, new_index)]
             EXCEPT ![new_index] = set_parent(@, res[3])]
    ELSE vv3

\* A collapse whose Root record takes the time 0 of an initial vertex.
PromoteAtStart(vv3, res, new_index) ==
    IF res[2]
    THEN [[vv3 EXCEPT ![res[3]] = set_parent(@, new_index)]
             EXCEPT ![new_index] = Root(inner_location(@), 0)]
    ELSE vv3

\* The vertex table after a fired shrink event x whose apply_event gave res.
Promote(vv3, res, new_index) ==
    IF res[2]
    THEN [[vv3 EXCEPT ![res[3]] = set_parent(@, new_index)]
             EXCEPT ![new_index] = Root(inner_location(@), time_elapsed(@))]
    ELSE vv3

ShrinkTable(vv, x, res, o) ==
    LET new_index == Len(vv) + 1
        left_ray == unwrap_base_ray(vv[x.left_real])[1]
        right_ray == unwrap_base_ray(vv[x.right_real])[2]
        vv1 == [vv EXCEPT ![x.left_real] = set_parent(@, new_index)]
        vv2 == [vv1 EXCEPT ![x.right_real] = set_parent(@, new_index)]
    IN  Promote(Append(vv2, new_tree_vertex(x.location, left_ray, right_ray, o)),
                res, new_index)

\* A popped shrink event that fires.
\* What a fired shrink event x leaves: <<vertex table, vertex queue, new
\* events, log entry>>.
\* A fired shrink event after which a split event anchored at the surviving
\* slot is scheduled as well.
ShrinkOutcomeSchedulingSplit(x, new_event, res, vv) ==
    <<vv, cleanup(res[1]),
      IF res[2] THEN <<>>
      ELSE make_shrink_event(res[3], res[1], vv, FALSE)
           \o <<SplitEvent(x.time, x.location, res[3],
                           get_real_index(res[1], res[3]))>>,
      new_event>>

ShrinkOutcome(x, new_event, res, vv) ==
    <<vv, cleanup(res[1]),
      IF res[2] THEN <<>> ELSE make_shrink_event(res[3], res[1], vv, FALSE),
      new_event>>

ShrinkApplied(x, new_event, res, vv0, o) ==
    ShrinkOutcome(x, new_event, res, ShrinkTable(vv0, x, res, o))

\* A fired shrink event that logs the right slot as merge_from while it
\* removes the left one from the vertex queue.
FireShrinkLoggingRight(x, q, vv0, o) ==
    ShrinkApplied(x, VertexEvent(x.time, x.right_vertex, Len(vv0) + 1),
                  apply_event(q, VertexEvent(x.time, x.left_vertex, Len(vv0) + 1)),
                  vv0, o)

FireShrink(x, q, vv0, o) ==
    ShrinkApplied(x, VertexEvent(x.time, x.left_vertex, Len(vv0) + 1),
                  apply_event(q, VertexEvent(x.time, x.left_vertex, Len(vv0) + 1)),
                  vv0, o)

\* The simulation takes the outcome `out` of the fired entry i.
Commit(i, out) ==
    /\ ray_vector' = out[1]
    /\ vertex_queue' = out[2]
    /\ event_pq' = RemoveAt(event_pq, i) \o out[3]
    /\ event_queue' = Append(event_queue, out[4])
    /\ UNCHANGED <<input, orient, initial_vertex_queue, pc>>
    /\ UNCHANGED results

PopShrink(i) ==
    /\ event_pq[i].kind = "ShrinkEvent"
    /\ ~ShrinkIsStale(vertex_queue, event_pq[i])
    /\ Commit(i, FireShrink(event_pq[i], vertex_queue, ray_vector, orient))

\* A popped split event that fails the staleness check: `continue`.
PopStaleSplit(i) ==
    /\ event_pq[i].kind = "SplitEvent"
    /\ SplitIsStale(vertex_queue, event_pq[i])
    /\ event_pq' = RemoveAt(event_pq, i)
    /\ UNCHANGED <<input, orient, ray_vector, vertex_queue,
                   initial_vertex_queue, event_queue, pc>>
    /\ UNCHANGED results

\* The rescan of a popped split event.
Rescan(q, vv, x, o) == find_split_vertex(x.anchor_vertex, cleanup(q), vv, FALSE, o)

\* A rescan check that confirms no scheduled event.
RescanNeverConfirms(rescan, x) == FALSE

\* Does the rescan confirm the scheduled event?
RescanConfirms(rescan, x) ==
    /\ Len(rescan) = 1
    /\ feq(rescan[1][1], x.time)
    /\ coord_eq(rescan[1][2], x.location)

\* A popped split event whose rescan does not confirm it: dropped.
PopDroppedSplit(i) ==
    /\ event_pq[i].kind = "SplitEvent"
    /\ ~SplitIsStale(vertex_queue, event_pq[i])
    /\ ~RescanConfirms(Rescan(vertex_queue, ray_vector, event_pq[i], orient),
                       event_pq[i])
    /\ event_pq' = RemoveAt(event_pq, i)
    /\ vertex_queue' = cleanup(cleanup(vertex_queue))
    /\ UNCHANGED <<input, orient, ray_vector, initial_vertex_queue,
                   event_queue, pc>>
    /\ UNCHANGED results

\* The table after a fired split event whose second new vertex takes the
\* ray of the struck edge as it is, not reversed.
SplitTableUnreversed(vv, x, sv_real, o) ==
    [vv \o <<new_tree_vertex(x.location, unwrap_base_ray(vv[x.anchor_real])[1],
                             unwrap_base_ray(vv[sv_real])[2], o),
             new_tree_vertex(x.location, unwrap_base_ray(vv[sv_real])[2],
                             unwrap_base_ray(vv[x.anchor_real])[2], o),
             Split(x.anchor_real, x.location, Len(vv) + 1, Len(vv) + 2,
                   time_elapsed(vv[x.anchor_real]))>>
        EXCEPT ![x.anchor_real] = set_parent(@, Len(vv) + 3)]

\* The vertex table after a fired split event x that strikes the edge of the
\* record sv_real: the two children, the Split record, the anchor's parent.
SplitTable(vv, x, sv_real, o) ==
    LET new_index1 == Len(vv) + 1
        new_index2 == new_index1 + 1
        new_split_vertex == Split(x.anchor_real, x.location, new_index1, new_index2,
                                  time_elapsed(vv[x.anchor_real]))
        new_tree_vertex1 ==
            new_tree_vertex(x.location, unwrap_base_ray(vv[x.anchor_real])[1],
                            unwrap_base_ray(vv[sv_real])[2], o)
        new_tree_vertex2 ==
            new_tree_vertex(x.location, reverse(unwrap_base_ray(vv[sv_real])[2]),
                            unwrap_base_ray(vv[x.anchor_real])[2], o)
        vv1 == vv \o <<new_tree_vertex1, new_tree_vertex2, new_split_vertex>>
    IN  [vv1 EXCEPT ![x.anchor_real] = set_parent(@, new_index2 + 1)]

\* A popped split event that fires.
\* What a fired split event x leaves: <<vertex table, vertex queue, new
\* events, log entry>>.
SplitOutcome(new_event, res, vv) ==
    <<vv, cleanup(res[1]),
      make_shrink_event(res[3], res[1], vv, FALSE)
          \o make_shrink_event(res[4], res[1], vv, FALSE),
      new_event>>

SplitApplied(x, new_event, q, vv0, sv_real, o) ==
    SplitOutcome(new_event, apply_event(cleanup(q), new_event),
                 SplitTable(vv0, x, sv_real, o))

FireSplit(x, rescan, q, vv0, o) ==
    SplitApplied(x, EdgeEvent(x.time, x.anchor_vertex, rescan[1][3],
                              Len(vv0) + 1, Len(vv0) + 2),
                 q, vv0, rescan[1][4], o)

SplitConfirmedAndFired(i, x, rescan) ==
    /\ RescanConfirms(rescan, x)
    /\ Commit(i, FireSplit(x, rescan, vertex_queue, ray_vector, orient))

PopSplit(i) ==
    /\ event_pq[i].kind = "SplitEvent"
    /\ ~SplitIsStale(vertex_queue, event_pq[i])
    /\ SplitConfirmedAndFired(i, event_pq[i],
                              Rescan(vertex_queue, ray_vector, event_pq[i], orient))

\* One iteration of the main loop of init_pq.
Pop ==
    /\ pc = "loop"
    /\ \E i \in PopCandidates(event_pq) :
          \/ PopStaleShrink(i)
          \/ PopShrink(i)
          \/ PopStaleSplit(i)
          \/ PopDroppedSplit(i)
          \/ PopSplit(i)

\* The priority queue is empty: init_pq returns and the Skeleton is built.
Finish ==
    /\ pc = "loop"
    /\ event_pq = <<>>
    /\ pc' = "built"
    /\ UNCHANGED <<input, orient, ray_vector, vertex_queue,
                   initial_vertex_queue, event_pq, event_queue>>
    /\ UNCHANGED results

\* One reconstruction from the built skeleton, as buffer_polygon and
\* buffer_multi_polygon make it: get_vertex_queue, then apply_vertex_queue.
Reconstruction(vv, initial, log, offset_distance) ==
    apply_vertex_queue(vv, get_vertex_queue(initial, log, offset_distance),
                       offset_distance)

Returned(d, out) ==
    /\ call' = [op |-> "apply_vertex_queue", offset_distance |-> d,
                nth |-> IF call = NoCall THEN 1
                        ELSE IF call.nth < MaxCalls THEN call.nth + 1
                        ELSE MaxCalls]
    /\ output' = out
    /\ first' = IF first = NoCall
                THEN [op |-> "apply_vertex_queue", offset_distance |-> d,
                      output |-> out]
                ELSE first

\* The edge events of the log.
EdgeEvents(log) == {k \in DOMAIN log : log[k].kind = "EdgeEvent"}

\* The offset distances given to a reconstruction from the skeleton whose
\* log is `log`: the offsets above and the times of its edge events.
Distances(log) ==
    Offsets \cup {unwrap_time(log[k]) : k \in EdgeEvents(log)}

Reconstruct ==
    /\ pc = "built"
    /\ \E d \in Distances(event_queue) :
          Returned(d, Reconstruction(ray_vector, initial_vertex_queue,
                                     event_queue, d))
    /\ UNCHANGED <<input, orient, ray_vector, vertex_queue, initial_vertex_queue,
                   event_pq, event_queue, pc>>

\* skeleton_of_polygon_to_linestring: the skeleton is drawn and dropped.
ToLinestring ==
    /\ pc = "built"
    /\ call = NoCall
    /\ call' = [op |-> "to_linestring"]
    /\ output' = to_linestring(ray_vector, initial_vertex_queue)
    /\ pc' = "returned"
    /\ UNCHANGED <<input, orient, ray_vector, vertex_queue, initial_vertex_queue,
                   event_pq, event_queue, first>>

\* buffer_polygon_rounded and buffer_multi_polygon_rounded: get_vertex_queue,
\* then apply_vertex_queue_rounded; the skeleton is dropped.
ReconstructRounded ==
    /\ pc = "built"
    /\ call = NoCall
    /\ \E d \in Offsets :
          /\ call' = [op |-> "apply_vertex_queue_rounded", offset_distance |-> d]
          /\ output' = apply_vertex_queue_rounded(ray_vector,
                            get_vertex_queue(initial_vertex_queue, event_queue, d), d)
    /\ pc' = "returned"
    /\ UNCHANGED <<input, orient, ray_vector, vertex_queue, initial_vertex_queue,
                   event_pq, event_queue, first>>

BufferPoint ==
    /\ pc = "buffer_point"
    /\ \E distance \in PointDistances, resolution \in 1..MaxResolution :
          /\ call' = [op |-> "buffer_point", distance |-> distance,
                      resolution |-> resolution]
          /\ output' = buffer_point(input, distance, resolution)
    /\ pc' = "returned"
    /\ UNCHANGED <<input, orient, ray_vector, vertex_queue, initial_vertex_queue,
                   event_pq, event_queue, first>>

Next ==
    \/ InitPQ \/ Pop \/ Finish \/ Reconstruct \/ ReconstructRounded
    \/ ToLinestring \/ BufferPoint

Spec == Init /\ [][Next]_vars

\* init_pq is running: before or inside its main loop.
Running == pc \in {"init_pq", "loop"}

\* init_pq is one sequential function: while it runs it keeps taking steps.
\* This is weak fairness of the steps of init_pq, stated on the steps taken:
\* a running init_pq always has a step to take, and no step of it leaves the
\* state as it was.
Progress == []<>(~Running) \/ []<><<Running>>_vars

\* The simulation with its scheduling: the loop keeps running, and returns
\* once the priority queue is empty.
LiveSpec == Spec /\ WF_vars(Finish) /\ Progress

\* ---------------------------------------------- the order of the events

\* The events given to Timeline::partial_cmp: times that are MaxTimeSteps
\* steps of just under the tolerance apart, tie-break distances up to
\* MaxTieBreak.
MaxTimeSteps == 2

MaxTieBreak == 2

EventTimes == {k * (EPS - 1) : k \in 0..MaxTimeSteps}

TimelineEvents ==
    {ShrinkEvent(t, Coord(0, 0), 1, 2, 1, 2, d) :
        t \in EventTimes, d \in 0..MaxTieBreak}
    \cup {SplitEvent(t, Coord(0, 0), 1, 1) : t \in EventTimes}

\* Three events a, b, c wait to be compared.
InitCompare ==
    /\ event_pq \in [1..3 -> TimelineEvents]
    /\ pc = "partial_cmp"
    /\ input = <<>>
    /\ orient = FALSE
    /\ ray_vector = <<>>
    /\ vertex_queue = <<>>
    /\ initial_vertex_queue = <<>>
    /\ event_queue = <<>>
    /\ call = NoCall
    /\ output = <<>>
    /\ first = NoCall

\* The comparisons a < b, b < c, a < c and b < a.
PartialCmp ==
    /\ pc = "partial_cmp"
    /\ call' = [op |-> "partial_cmp"]
    /\ output' = [ab |-> timeline_lt(event_pq[1], event_pq[2]),
                  bc |-> timeline_lt(event_pq[2], event_pq[3]),
                  ac |-> timeline_lt(event_pq[1], event_pq[3]),
                  ba |-> timeline_lt(event_pq[2], event_pq[1])]
    /\ pc' = "compared"
    /\ UNCHANGED <<input, orient, ray_vector, vertex_queue, initial_vertex_queue,
                   event_pq, event_queue, first>>

CompareSpec == InitCompare /\ [][PartialCmp]_vars

\* ------------------------------------------------------------------ claims

\* The state after buffer_polygon or buffer_multi_polygon returned, by the
\* direction and the offset distance of the call.
Deflated(d) == call.op = "apply_vertex_queue" /\ orient /\ call.offset_distance = d

Inflated(d) == call.op = "apply_vertex_queue" /\ ~orient /\ call.offset_distance = d

UnitSquare == <<Polygon(Rect(0, 0, 1, 1), <<>>)>>

ClosedRings(rings) == [k \in DOMAIN rings |-> close(rings[k])]

\* C1: buffer_polygon(P, 0) applies no logged event and returns every ring
\* of P as one ring with the same vertices in the same order, the exterior
\* as an exterior and the interior rings as its holes.
C1_ZeroDistanceIsCongruent ==
    Inflated(0) =>
        /\ get_vertex_queue(initial_vertex_queue, event_queue, 0)
               = initial_vertex_queue
        /\ Len(output) = Len(input)
        /\ \A i \in DOMAIN input :
              /\ output[i].exterior = close(input[i].exterior)
              /\ output[i].interiors = ClosedRings(input[i].interiors)

\* C1 witness: the square with a square hole was buffered by 0 and came back
\* with its hole.
C1_Witness ==
    /\ Inflated(0)
    /\ input = Holed
    /\ Len(output) = 1
    /\ Len(output[1].interiors) = 1

\* The rectangle of width w and height h inset by d, from the image of the
\* first vertex.
InsetRect(w, h, d) ==
    <<<<d, d>>, <<w * Scale - d, d>>, <<w * Scale - d, h * Scale - d>>,
      <<d, h * Scale - d>>, <<d, d>>>>

\* C2: deflating the w x h rectangle by less than half its shorter side
\* returns one polygon without holes whose ring is the rectangle inset by
\* that distance on every side, from the image of the first vertex; for the
\* unit square and 0.2 that is (0.2,0.2),(0.8,0.2),(0.8,0.8),(0.2,0.8),(0.2,0.2).
C2_RectangleDeflates ==
    \A w, h \in 1..MaxSide :
        (/\ call.op = "apply_vertex_queue"
         /\ orient
         /\ input = <<Polygon(Rect(0, 0, w, h), <<>>)>>
         /\ 2 * call.offset_distance < w * Scale
         /\ 2 * call.offset_distance < h * Scale)
        => output = <<Polygon(InsetRect(w, h, call.offset_distance), <<>>)>>

\* C2 witness: the unit square was deflated by 0.2.
C2_Witness ==
    /\ Deflated(200)
    /\ input = UnitSquare
    /\ output = <<Polygon(<<<<200, 200>>, <<800, 200>>, <<800, 800>>,
                            <<200, 800>>, <<200, 200>>>>, <<>>)>>

MergedRing ==
    <<<<-1000, -1000>>, <<3000, -1000>>, <<3000, 2000>>, <<6000, 2000>>,
      <<6000, 6000>>, <<2000, 6000>>, <<2000, 3000>>, <<-1000, 3000>>,
      <<-1000, -1000>>>>

\* An edge event of the log happened by the offset distance of the call.
WavefrontsMet ==
    \E k \in DOMAIN event_queue :
        /\ event_queue[k].kind = "EdgeEvent"
        /\ event_queue[k].time <= call.offset_distance

\* C3: inflating the two squares by 1 returns as first polygon the merged
\* ring (-1,-1),(3,-1),(3,2),(6,2),(6,6),(2,6),(2,3),(-1,3),(-1,-1); and once
\* the two wavefronts met by the offset distance, the reconstruction emits
\* one ring, not two.
C3_TwoSquaresMerge ==
    (call.op = "apply_vertex_queue" /\ ~orient /\ input = TwoSquares) =>
        /\ call.offset_distance = Scale => output[1].exterior = MergedRing
        /\ WavefrontsMet => Len(output) = 1 /\ output[1].interiors = <<>>

\* C3 witness: the two squares were inflated by 1, after their wavefronts
\* had met, and one polygon came back.
C3_Witness ==
    /\ Inflated(Scale)
    /\ input = TwoSquares
    /\ WavefrontsMet
    /\ output = <<Polygon(MergedRing, <<>>)>>

\* C4: deflating the concave polygon by 0.45 returns exactly two polygons,
\* each with a counter-clockwise exterior and no hole: the edge event of the
\* reflex vertex (2,1), the fourth of the ring, is logged before 0.45.
C4_ConcaveSplits ==
    (Deflated(450) /\ input = Concave) =>
        /\ Len(output) = 2
        /\ \A i \in DOMAIN output :
              /\ winding_order(output[i].exterior) = "CounterClockwise"
              /\ output[i].interiors = <<>>
        /\ event_queue # <<>>
        /\ event_queue[1].kind = "EdgeEvent"
        /\ event_queue[1].split_from = 4
        /\ event_queue[1].time < 450

\* C4 witness: the concave polygon was deflated by 0.45 and two polygons
\* came back.
C4_Witness == Deflated(450) /\ input = Concave /\ Len(output) = 2

\* C5 as stated: inflating the two squares by 0.5 returns exactly two
\* polygons with counter-clockwise exteriors.
C5_TwoSquaresStayApart ==
    (Inflated(500) /\ input = TwoSquares) =>
        /\ Len(output) = 2
        /\ \A i \in DOMAIN output :
              winding_order(output[i].exterior) = "CounterClockwise"

\* The vertex queue a reconstruction at the distance of the call walks.
WalkedQueue ==
    get_vertex_queue(initial_vertex_queue, event_queue, call.offset_distance)

\* The point apply_vertex_queue emits for the vertex record v.
Emitted(v) ==
    point_by_ratio(unwrap_ray(v), call.offset_distance - time_elapsed(v))

\* C6: at distance d every emitted point, axis.point_by_ratio(d -
\* time_elapsed), lies at distance d, within the tolerance, from the
\* supporting lines of the left_ray and the right_ray of its record.
C6_EmittedAtDistance ==
    call.op = "apply_vertex_queue" =>
        \A k \in DOMAIN iter(WalkedQueue) :
            /\ feq(dist_ray(Emitted(ray_vector[iter(WalkedQueue)[k][3]]),
                            ray_vector[iter(WalkedQueue)[k][3]].left_ray),
                   call.offset_distance)
            /\ feq(dist_ray(Emitted(ray_vector[iter(WalkedQueue)[k][3]]),
                            ray_vector[iter(WalkedQueue)[k][3]].right_ray),
                   call.offset_distance)

\* C6 witness: a reconstruction at a positive distance emitted a vertex that
\* an event created.
C6_Witness ==
    /\ call.op = "apply_vertex_queue"
    /\ call.offset_distance > 0
    /\ \E k \in DOMAIN iter(WalkedQueue) :
          time_elapsed(ray_vector[iter(WalkedQueue)[k][3]]) > 0

BufferedPoint == pc = "returned" /\ call.op = "buffer_point"

\* C7 as stated: buffer_point with distance >= 0 and resolution n >= 1
\* returns an exterior ring of exactly n + 1 coordinates.
C7_RingHasOneMoreThanResolution ==
    (BufferedPoint /\ call.distance >= 0) =>
        Len(output.exterior) = call.resolution + 1

\* C8: buffer_point returns the empty polygon, no exterior coordinate and no
\* interior, exactly when the distance is negative.
C8_EmptyIffNegative ==
    BufferedPoint =>
        ((output.exterior = <<>> /\ output.interiors = <<>>) <=> call.distance < 0)

\* C8 witness: buffer_point was called with a negative distance and
\* returned the empty polygon.
C8_Witness ==
    /\ BufferedPoint
    /\ call.distance < 0
    /\ output = Polygon(<<>>, <<>>)

\* C9 as stated: the skeleton of the unit square, inward, is drawn as
\* exactly 4 segments, each from a corner to (0.5,0.5).
C9_SquareHasFourSegments ==
    (pc = "returned" /\ call.op = "to_linestring" /\ input = UnitSquare /\ orient) =>
        /\ Len(output) = 4
        /\ \A k \in DOMAIN output :
              /\ output[k][1] \in {<<0, 0>>, <<1000, 0>>, <<1000, 1000>>, <<0, 1000>>}
              /\ output[k][2] = <<500, 500>>

RoundedCall == call.op = "apply_vertex_queue_rounded"

\* The interior angle of the polygon at the vertex of the record v is less
\* than, or more than, a half turn: left_ray goes to the predecessor and
\* right_ray to the successor of a ring that keeps the interior on its left.
ConvexCorner(v) == RawOuter(unwrap_base_ray(v)[1].angle, unwrap_base_ray(v)[2].angle) < 0

ReflexCorner(v) == RawOuter(unwrap_base_ray(v)[1].angle, unwrap_base_ray(v)[2].angle) > 0

\* The points apply_vertex_queue_rounded emits for the record v.
RoundedAt(v) ==
    RoundedPoints(v, call.offset_distance - time_elapsed(v), get_orientation(ray_vector))

\* At every convex corner of a deflation the rounded reconstruction emits
\* the one point of the miter reconstruction.
DeflatedConvexAgree ==
    (RoundedCall /\ orient) =>
        \A k \in DOMAIN iter(WalkedQueue) :
            ConvexCorner(ray_vector[iter(WalkedQueue)[k][3]]) =>
                RoundedAt(ray_vector[iter(WalkedQueue)[k][3]])
                    = <<Emitted(ray_vector[iter(WalkedQueue)[k][3]])>>

\* C11 as stated: at every convex corner of a deflation the rounded
\* reconstruction emits the one point of the miter reconstruction, and the
\* two differ only at convex corners of an inflation.
C11_DifferOnlyWhenInflating ==
    /\ DeflatedConvexAgree
    /\ RoundedCall =>
          \A k \in DOMAIN iter(WalkedQueue) :
              RoundedAt(ray_vector[iter(WalkedQueue)[k][3]])
                      # <<Emitted(ray_vector[iter(WalkedQueue)[k][3]])>>
                  => ~orient /\ ConvexCorner(ray_vector[iter(WalkedQueue)[k][3]])

\* C11 amended: at every convex corner of a deflation the rounded
\* reconstruction emits the one point of the miter reconstruction; the two
\* differ only at convex corners of an inflation and at reflex corners of a
\* deflation; and with no such corner the two return the same polygons.
C11_DifferWhereWavefrontIsConvex ==
    /\ DeflatedConvexAgree
    /\ RoundedCall =>
          /\ \A k \in DOMAIN iter(WalkedQueue) :
                RoundedAt(ray_vector[iter(WalkedQueue)[k][3]])
                        # <<Emitted(ray_vector[iter(WalkedQueue)[k][3]])>>
                    => \/ ~orient /\ ConvexCorner(ray_vector[iter(WalkedQueue)[k][3]])
                       \/ orient /\ ReflexCorner(ray_vector[iter(WalkedQueue)[k][3]])
          /\ (\A k \in DOMAIN iter(WalkedQueue) :
                 AxisInsideAngle(ray_vector[iter(WalkedQueue)[k][3]]))
                => output = Reconstruction(ray_vector, initial_vertex_queue,
                                           event_queue, call.offset_distance)

\* C11 witness: a rounded deflation at a positive distance walked a convex
\* corner, where it emitted the miter point, and a reflex corner, where it
\* swept an arc.
C11_Witness ==
    /\ RoundedCall /\ orient /\ call.offset_distance > 0
    /\ \E k \in DOMAIN iter(WalkedQueue) :
          /\ ConvexCorner(ray_vector[iter(WalkedQueue)[k][3]])
          /\ RoundedAt(ray_vector[iter(WalkedQueue)[k][3]])
                 = <<Emitted(ray_vector[iter(WalkedQueue)[k][3]])>>
    /\ \E k \in DOMAIN iter(WalkedQueue) :
          /\ ReflexCorner(ray_vector[iter(WalkedQueue)[k][3]])
          /\ Len(RoundedAt(ray_vector[iter(WalkedQueue)[k][3]])) > 2

\* The number of vertices of the input rings.
InputVertices == Len(Flatten(RingsOf(input)))

\* The most events one iteration of the main loop of init_pq schedules: two
\* shrink events for each of the two vertices a split event creates.
MaxScheduled == 4

\* What is left of the simulation: the entries of the priority queue, and
\* one more than MaxScheduled for every event yet to be logged.
Variant ==
    Len(event_pq) + (MaxScheduled + 1) * (InputVertices - Len(event_queue))

\* C12: init_pq returns, with an empty priority queue. The log never holds
\* more events than the input has vertices, an iteration logs at most one
\* event and schedules at most MaxScheduled, every iteration lowers the
\* variant, which is never negative, and a non-empty priority queue always
\* has an entry to pop.
C12_SimulationTerminates ==
    /\ Running ~> (pc = "built" /\ event_pq = <<>>)
    /\ [](pc \in {"loop", "built"} =>
             /\ Len(event_queue) <= InputVertices
             /\ Variant >= 0
             /\ event_pq # <<>> => PopCandidates(event_pq) # {})
    /\ [][(pc = "loop" /\ pc' = "loop") =>
             /\ Variant' < Variant
             /\ Len(event_queue') <= Len(event_queue) + 1
             /\ Len(event_pq') <= Len(event_pq) - 1 + MaxScheduled]_vars

\* C12 witness: init_pq returned with an empty priority queue after it
\* logged a split and two merges.
C12_Witness ==
    /\ pc = "built"
    /\ event_pq = <<>>
    /\ Len(event_queue) >= 3
    /\ \E k \in DOMAIN event_queue : event_queue[k].kind = "EdgeEvent"

\* unwrap_ray, unwrap_base_ray and set_parent return on the record v.
IsTree(v) == v.kind = "Tree"

\* Every active slot of the vertex queue q holds a Tree record of vv: the
\* records find_split_vertex, make_shrink_event and the reconstructions
\* unwrap are those of active slots.
ActiveAreTrees(q, vv) ==
    \A p \in DOMAIN q : ~q[p].done => IsTree(vv[get_real_index(q, p)])

\* The shrink branch of init_pq on the event x: the two records it unwraps
\* are Tree records, apply_event answers (Some, None), and after a collapse
\* the record that gets the parent is a Tree record.
ShrinkBranchSafe(x, q, vv) ==
    /\ IsTree(vv[x.left_real])
    /\ IsTree(vv[x.right_real])
    /\ apply_event(q, VertexEvent(x.time, x.left_vertex, Len(vv) + 1))[3] # 0
    /\ apply_event(q, VertexEvent(x.time, x.left_vertex, Len(vv) + 1))[4] = 0
    /\ apply_event(q, VertexEvent(x.time, x.left_vertex, Len(vv) + 1))[2] =>
          \/ apply_event(q, VertexEvent(x.time, x.left_vertex, Len(vv) + 1))[3]
                 = Len(vv) + 1
          \/ IsTree(vv[apply_event(q, VertexEvent(x.time, x.left_vertex,
                                                  Len(vv) + 1))[3]])

\* The split branch of init_pq on the event x that the rescan confirms: the
\* records of the anchor and of the struck edge are Tree records, and
\* apply_event answers (Some, Some).
SplitBranchSafe(x, rescan, q, vv) ==
    RescanConfirms(rescan, x) =>
        /\ IsTree(vv[x.anchor_real])
        /\ IsTree(vv[rescan[1][4]])
        /\ apply_event(cleanup(q), EdgeEvent(x.time, x.anchor_vertex, rescan[1][3],
                                             Len(vv) + 1, Len(vv) + 2))[3] # 0
        /\ apply_event(cleanup(q), EdgeEvent(x.time, x.anchor_vertex, rescan[1][3],
                                             Len(vv) + 1, Len(vv) + 2))[4] # 0

\* C13: no fatal assertion is reachable. During the simulation every active
\* slot holds a Tree record, every entry of the priority queue that passes
\* the staleness check unwraps and re-parents Tree records only and gets
\* from apply_event the answer of its variant; in the built skeleton the
\* first record is a Tree record and so is the record of every active slot
\* of the vertex queue of every offset distance.
C13_NoFatalAssertion ==
    /\ ActiveAreTrees(vertex_queue, ray_vector)
    /\ pc = "loop" =>
          \A i \in DOMAIN event_pq :
              /\ (event_pq[i].kind = "ShrinkEvent"
                     /\ ~ShrinkIsStale(vertex_queue, event_pq[i]))
                    => ShrinkBranchSafe(event_pq[i], vertex_queue, ray_vector)
              /\ (event_pq[i].kind = "SplitEvent"
                     /\ ~SplitIsStale(vertex_queue, event_pq[i]))
                    => SplitBranchSafe(event_pq[i],
                                       Rescan(vertex_queue, ray_vector, event_pq[i], orient),
                                       vertex_queue, ray_vector)
    /\ pc = "built" =>
          /\ IsTree(ray_vector[1])
          /\ \A d \in Offsets :
                ActiveAreTrees(get_vertex_queue(initial_vertex_queue, event_queue, d),
                               ray_vector)

\* C13 witness: a reconstruction emitted vertices from a vertex table that
\* holds a Root record and a Split record.
C13_Witness ==
    /\ call.op = "apply_vertex_queue"
    /\ \E k \in DOMAIN ray_vector : ray_vector[k].kind = "Root"
    /\ \E k \in DOMAIN ray_vector : ray_vector[k].kind = "Split"
    /\ iter(WalkedQueue) # <<>>

\* The entry x of the priority queue is a shrink event that passes the
\* staleness check of init_pq.
LiveShrink(x) == x.kind = "ShrinkEvent" /\ ~ShrinkIsStale(vertex_queue, x)

\* The two slots of the shrink event x are neighbours in the vertex queue.
Adjacent(x) == rv(vertex_queue, x.left_vertex) = x.right_vertex

\* C14: every shrink event that the priority queue may pop next and that
\* passes the staleness check merges two neighbours, right_vertex =
\* rv(left_vertex): a shrink event whose edge an edge event has split does
\* not fire.
C14_FiredShrinkIsAdjacent ==
    pc = "loop" =>
        \A i \in PopCandidates(event_pq) :
            LiveShrink(event_pq[i]) => Adjacent(event_pq[i])

\* C14 witness: after an edge event a shrink event fired, while the priority
\* queue held a shrink event that passes the staleness check although the
\* edge event has split its edge.
C14_Witness ==
    /\ pc = "loop"
    /\ \E k \in DOMAIN event_queue : event_queue[k].kind = "EdgeEvent"
    /\ event_queue[Len(event_queue)].kind = "VertexEvent"
    /\ \E i \in DOMAIN event_pq :
          LiveShrink(event_pq[i]) /\ ~Adjacent(event_pq[i])

\* The entry x of the priority queue is stale: a slot it names is done, or
\* holds another real-index than the one x recorded.
Stale(x) ==
    IF x.kind = "ShrinkEvent"
    THEN \/ vertex_queue[x.left_vertex].done
         \/ vertex_queue[x.right_vertex].done
         \/ vertex_queue[x.left_vertex].index # x.left_real
         \/ vertex_queue[x.right_vertex].index # x.right_real
    ELSE \/ vertex_queue[x.anchor_vertex].done
         \/ vertex_queue[x.anchor_vertex].index # x.anchor_real

\* The step pops the entry i of the priority queue: what it leaves is the
\* queue without that entry, followed by what the step scheduled.
Popped(i) ==
    /\ pc = "loop" /\ pc' = "loop"
    /\ Len(event_pq') >= Len(event_pq) - 1
    /\ SubSeq(event_pq', 1, Len(event_pq) - 1) = RemoveAt(event_pq, i)

\* C15: an iteration of the main loop that pops a stale entry discards it:
\* the vertex table, the vertex queue (links, real-indices, done flags) and
\* the event log stay as they were, and nothing is scheduled.
C15_StaleEventIsNoOp ==
    [][\A i \in DOMAIN event_pq :
          (Stale(event_pq[i]) /\ Popped(i))
              => /\ event_pq' = RemoveAt(event_pq, i)
                 /\ UNCHANGED <<ray_vector, vertex_queue, event_queue>>]_vars

\* C15 witness: after an edge event the priority queue may pop a shrink
\* event that is stale.
C15_Witness ==
    /\ pc = "loop"
    /\ \E k \in DOMAIN event_queue : event_queue[k].kind = "EdgeEvent"
    /\ \E i \in PopCandidates(event_pq) :
          event_pq[i].kind = "ShrinkEvent" /\ Stale(event_pq[i])

\* C16 as stated: get_vertex_queue(d) applies, in log order from the initial
\* snapshot, every logged event whose time is <= d and no logged event
\* whose time is > d.
C16_ReplaysEveryEventUpToDistance ==
    call.op = "apply_vertex_queue" =>
        /\ WalkedQueue
               = ReplayAll(initial_vertex_queue,
                           SubSeq(event_queue, 1,
                                  Replayed(event_queue, call.offset_distance)))
        /\ \A k \in DOMAIN event_queue :
              k <= Replayed(event_queue, call.offset_distance)
                  <=> event_queue[k].time <= call.offset_distance

\* C17 as stated: the times of the events in the event log are non-decreasing
\* in append order.
C17_LogTimesNonDecreasing ==
    \A k \in 1..(Len(event_queue) - 1) :
        event_queue[k].time <= event_queue[k + 1].time

\* A split event is pending whose time equals, within the tolerance, the
\* time of the entry x.
SplitPendingAtTimeOf(x) ==
    \E j \in DOMAIN event_pq :
        event_pq[j].kind = "SplitEvent" /\ ~fneq(event_pq[j].time, x.time)

\* C18: the entry an iteration pops is one that no pending entry precedes in
\* the order of Timeline::partial_cmp, and a shrink event is not popped while
\* a split event of the same time, within the tolerance, is pending.
C18_SplitPoppedBeforeShrink ==
    [][\A i \in DOMAIN event_pq :
          Popped(i) =>
              /\ \A j \in DOMAIN event_pq : ~timeline_lt(event_pq[j], event_pq[i])
              /\ event_pq[i].kind = "ShrinkEvent"
                    => ~SplitPendingAtTimeOf(event_pq[i])]_vars

\* C18 witness: a split event and a shrink event of the same time, within
\* the tolerance, are pending, both pass the staleness check, and the split
\* event is one the priority queue may pop.
C18_Witness ==
    /\ pc = "loop"
    /\ \E i \in PopCandidates(event_pq) :
          /\ event_pq[i].kind = "SplitEvent"
          /\ ~Stale(event_pq[i])
          /\ \E j \in DOMAIN event_pq :
                /\ event_pq[j].kind = "ShrinkEvent"
                /\ ~Stale(event_pq[j])
                /\ ~fneq(event_pq[j].time, event_pq[i].time)

\* C19: the comparison of Timeline::partial_cmp is a strict total order on
\* the events: a < b and b < c imply a < c, and a < b excludes b < a.
C19_ComparisonIsTotalOrder ==
    call.op = "partial_cmp" =>
        /\ (output.ab /\ output.bc) => output.ac
        /\ output.ab => ~output.ba

\* The active slots of q are linked both ways to active slots, and walking
\* right from a slot comes back to it.
LoopIntegrity(q) ==
    \A p \in DOMAIN q :
        ~q[p].done =>
            /\ ~q[lv(q, p)].done
            /\ ~q[rv(q, p)].done
            /\ rv(q, lv(q, p)) = p
            /\ lv(q, rv(q, p)) = p
            /\ rv(q, LoopOf(q, p)[Len(LoopOf(q, p))]) = p

\* C20: after any sequence of fired events, in the simulation and in the
\* queue a reconstruction replays, every active slot has active neighbours
\* that point back to it, so the active slots form disjoint circular loops.
C20_LoopIntegrity ==
    /\ LoopIntegrity(vertex_queue)
    /\ call.op \in {"apply_vertex_queue", "apply_vertex_queue_rounded"}
          => LoopIntegrity(get_vertex_queue(initial_vertex_queue, event_queue,
                                            call.offset_distance))

\* C20 witness: a vertex event and an edge event have fired, slots are done
\* and at least two loops are active.
C20_Witness ==
    /\ pc = "loop"
    /\ \E i, j \in DOMAIN event_queue :
          event_queue[i].kind = "VertexEvent" /\ event_queue[j].kind = "EdgeEvent"
    /\ \E p \in DOMAIN vertex_queue : vertex_queue[p].done
    /\ \E p, r \in DOMAIN vertex_queue :
          /\ ~vertex_queue[p].done
          /\ ~vertex_queue[r].done
          /\ r \notin SeqSet(LoopOf(vertex_queue, p))
    /\ LoopIntegrity(vertex_queue)

\* The number of active slots of the vertex queue q.
ActiveSlots(q) == Cardinality({p \in DOMAIN q : ~q[p].done})

\* This step of the main loop fires an event of the given kind: it appends
\* one to the log.
Fires(kind) ==
    /\ pc = "loop"
    /\ Len(event_queue') = Len(event_queue) + 1
    /\ event_queue'[Len(event_queue')].kind = kind

\* The record the step appended last to the vertex table is a Root: the
\* fired shrink event annihilated its loop.
Annihilates == ray_vector'[Len(ray_vector')].kind = "Root"

\* C21 as stated: every fired shrink event changes the number of active
\* slots by -1 and every fired edge event by +1.
C21_ShrinkRemovesOneSlot ==
    [][/\ Fires("VertexEvent")
            => ActiveSlots(vertex_queue') = ActiveSlots(vertex_queue) - 1
       /\ Fires("EdgeEvent")
            => ActiveSlots(vertex_queue') = ActiveSlots(vertex_queue) + 1]_vars

\* C21 amended: a fired shrink event changes the number of active slots by
\* -1, or by -3 when it annihilates its loop (the removed slot and the two
\* slots left); a fired edge event changes it by +1.
C21_ShrinkRemovesOneOrLoop ==
    [][/\ (Fires("VertexEvent") /\ ~Annihilates)
            => ActiveSlots(vertex_queue') = ActiveSlots(vertex_queue) - 1
       /\ (Fires("VertexEvent") /\ Annihilates)
            => ActiveSlots(vertex_queue') = ActiveSlots(vertex_queue) - 3
       /\ Fires("EdgeEvent")
            => ActiveSlots(vertex_queue') = ActiveSlots(vertex_queue) + 1]_vars

\* C21 witness: an edge event has fired and a later shrink event has
\* annihilated one of the loops it made, while the other is active.
C21_Witness ==
    /\ pc = "loop"
    /\ \E i, j \in DOMAIN event_queue :
          /\ i < j
          /\ event_queue[i].kind = "EdgeEvent"
          /\ event_queue[j].kind = "VertexEvent"
          /\ ray_vector[event_queue[j].merge_to].kind = "Root"
    /\ ActiveSlots(vertex_queue) > 0

\* The records met by following parent links from record i of vv, i first,
\* for at most n further steps.
RECURSIVE ParentWalk(_, _, _)
ParentWalk(vv, i, n) ==
    IF vv[i].kind # "Tree" \/ vv[i].parent = NoParent \/ n = 0 THEN <<i>>
    ELSE <<i>> \o ParentWalk(vv, vv[i].parent, n - 1)

\* Following parent links from i visits no record twice and ends at a
\* record of one of the given kinds or at a Tree record without a parent.
WalkEndsAt(vv, i, kinds) ==
    /\ \A a, b \in DOMAIN ParentWalk(vv, i, Len(vv)) :
          a # b => ParentWalk(vv, i, Len(vv))[a] # ParentWalk(vv, i, Len(vv))[b]
    /\ \/ vv[ParentWalk(vv, i, Len(vv))[Len(ParentWalk(vv, i, Len(vv)))]].kind \in kinds
       \/ /\ vv[ParentWalk(vv, i, Len(vv))[Len(ParentWalk(vv, i, Len(vv)))]].kind = "Tree"
          /\ vv[ParentWalk(vv, i, Len(vv))[Len(ParentWalk(vv, i, Len(vv)))]].parent = NoParent

\* The parent of a Tree record is absent or the index of a record.
ParentsAreRecords(vv) ==
    \A i \in DOMAIN vv :
        vv[i].kind = "Tree" => vv[i].parent \in {NoParent} \cup DOMAIN vv

\* C22 as stated: at the end of the simulation, following parent links from
\* any Tree record never revisits a record and ends at a Root record or at a
\* Tree record whose parent is absent.
C22_WalkEndsAtRootOrOpenTree ==
    pc \in {"built", "returned"} /\ ray_vector # <<>> =>
        /\ ParentsAreRecords(ray_vector)
        /\ \A i \in DOMAIN ray_vector :
              ray_vector[i].kind = "Tree" => WalkEndsAt(ray_vector, i, {"Root"})

\* C22 amended: at the end of the simulation, following parent links from
\* any Tree record never revisits a record and ends at a Root record, at a
\* Split record (the parent of the anchor of an edge event) or at a Tree
\* record whose parent is absent.
C22_WalkEndsAtRootSplitOrOpenTree ==
    pc \in {"built", "returned"} /\ ray_vector # <<>> =>
        /\ ParentsAreRecords(ray_vector)
        /\ \A i \in DOMAIN ray_vector :
              ray_vector[i].kind = "Tree"
                  => WalkEndsAt(ray_vector, i, {"Root", "Split"})

\* The record at which the walk from record i of vv ends.
WalkEnd(vv, i) == vv[ParentWalk(vv, i, Len(vv))[Len(ParentWalk(vv, i, Len(vv)))]]

\* C22 witness: the simulation has ended; the walk from one Tree record ends
\* at a Split record and the walk from another ends at a Root record.
C22_Witness ==
    /\ pc = "built"
    /\ \E i, j \in DOMAIN ray_vector :
          /\ ray_vector[i].kind = "Tree"
          /\ ray_vector[j].kind = "Tree"
          /\ WalkEnd(ray_vector, i).kind = "Split"
          /\ WalkEnd(ray_vector, j).kind = "Root"
    /\ C22_WalkEndsAtRootSplitOrOpenTree

\* The Tree records of vv that have a parent.
WithParent(vv) ==
    {i \in DOMAIN vv : vv[i].kind = "Tree" /\ vv[i].parent # NoParent}

\* C23 as stated: for every record that has a parent, the time_elapsed of
\* the child is at least that of the parent, within the tolerance.
C23_ChildNotBeforeParent ==
    \A i \in WithParent(ray_vector) :
        fgeq(time_elapsed(ray_vector[i]),
             time_elapsed(ray_vector[ray_vector[i].parent]))

\* C23 amended: for every record that has a parent, the time_elapsed of the
\* child is at most that of the parent, within the tolerance: a record is
\* made before the record it feeds into.
C23_ChildNotAfterParent ==
    \A i \in WithParent(ray_vector) :
        fleq(time_elapsed(ray_vector[i]),
             time_elapsed(ray_vector[ray_vector[i].parent]))

\* C23 witness: the simulation has ended; one record has a Split parent and
\* another a Root parent made more than the tolerance after it.
C23_Witness ==
    /\ pc = "built"
    /\ \E j, k \in WithParent(ray_vector) :
          /\ ray_vector[ray_vector[j].parent].kind = "Root"
          /\ ray_vector[ray_vector[k].parent].kind = "Split"
          /\ time_elapsed(ray_vector[ray_vector[j].parent])
                > time_elapsed(ray_vector[j]) + EPS
    /\ C23_ChildNotAfterParent

\* C24: when an edge event fires, the Split record appended last has the
\* anchor's real-index, the split point, the indices of the two Tree records
\* appended before it and the firing time of the event, and the anchor's
\* parent is the index of the Split record.
C24_SplitRecordOfFiredEdgeEvent ==
    [][Fires("EdgeEvent") =>
          /\ Len(ray_vector') = Len(ray_vector) + 3
          /\ ray_vector'[Len(ray_vector) + 1].kind = "Tree"
          /\ ray_vector'[Len(ray_vector) + 2].kind = "Tree"
          /\ \E i \in PopCandidates(event_pq) :
                /\ Popped(i)
                /\ event_pq[i].kind = "SplitEvent"
                /\ ray_vector'[event_pq[i].anchor_real].parent = Len(ray_vector) + 3
                /\ ray_vector'[Len(ray_vector) + 3].kind = "Split"
                /\ ray_vector'[Len(ray_vector) + 3].anchor = event_pq[i].anchor_real
                /\ ray_vector'[Len(ray_vector) + 3].location = event_pq[i].location
                /\ ray_vector'[Len(ray_vector) + 3].split_left = Len(ray_vector) + 1
                /\ ray_vector'[Len(ray_vector) + 3].split_right = Len(ray_vector) + 2
                /\ feq(ray_vector'[Len(ray_vector) + 3].time_elapsed,
                       event_pq[i].time)]_vars

\* The active slots of the vertex queue q.
Active(q) == {p \in DOMAIN q : ~q[p].done}

\* The edges sv -> rv(sv) that find_split_vertex evaluates as candidates for
\* the anchor cv: those of the slots it iterates over and does not skip.
EvaluatedEdges(q, cv) ==
    {iter(q)[k][2] : k \in DOMAIN iter(q)} \ {sv \in Active(q) : SkipsEdge(q, cv, sv)}

\* The anchors the split search is run for: the active reflex vertices.
Anchors == {cv \in Active(vertex_queue) :
               IsReflex(ray_vector[get_real_index(vertex_queue, cv)], orient)}

\* C25 as stated: the split search skips exactly the two edges incident to
\* the anchor cv, those that start at cv or at lv(cv), and evaluates every
\* other active edge of every loop.
C25_SkipsIncidentEdgesOnly ==
    pc \in {"init_pq", "loop"} =>
        \A cv \in Anchors :
            EvaluatedEdges(vertex_queue, cv)
                = Active(vertex_queue) \ {cv, lv(vertex_queue, cv)}

\* C25 amended: the split search skips exactly the two edges incident to the
\* anchor cv and the two edges next to them (the edge that starts at rv(cv)
\* and the edge that ends at lv(cv)), and evaluates every other active edge
\* of every loop.
C25_SkipsIncidentAndNextEdges ==
    pc \in {"init_pq", "loop"} =>
        \A cv \in Anchors :
            EvaluatedEdges(vertex_queue, cv)
                = Active(vertex_queue)
                    \ {cv, lv(vertex_queue, cv), rv(vertex_queue, cv),
                       lv(vertex_queue, lv(vertex_queue, cv))}

\* C25 witness: after a fired event two loops are active, and an anchor in a
\* loop of more than four slots has four distinct skipped edges and an
\* evaluated edge in its own loop and in the other loop.
C25_Witness ==
    /\ pc = "loop"
    /\ event_queue # <<>>
    /\ \E cv \in Anchors :
          /\ Cardinality({cv, lv(vertex_queue, cv), rv(vertex_queue, cv),
                          lv(vertex_queue, lv(vertex_queue, cv))}) = 4
          /\ \E a, b \in EvaluatedEdges(vertex_queue, cv) :
                /\ a \in SeqSet(LoopOf(vertex_queue, cv))
                /\ b \notin SeqSet(LoopOf(vertex_queue, cv))

\* The vertex table after each write of the ShrinkEvent branch of init_pq
\* on the event x, in the order of the code: the two parents, the push, and
\* after a collapse the third parent and the Root stored over the pushed
\* record.
ShrinkWrites(vv, x, res, o) ==
    <<vv,
      [vv EXCEPT ![x.left_real] = set_parent(@, Len(vv) + 1)],
      [[vv EXCEPT ![x.left_real] = set_parent(@, Len(vv) + 1)]
           EXCEPT ![x.right_real] = set_parent(@, Len(vv) + 1)],
      Append([[vv EXCEPT ![x.left_real] = set_parent(@, Len(vv) + 1)]
                  EXCEPT ![x.right_real] = set_parent(@, Len(vv) + 1)],
             new_tree_vertex(x.location, unwrap_base_ray(vv[x.left_real])[1],
                             unwrap_base_ray(vv[x.right_real])[2], o))>>
    \o (IF res[2]
        THEN <<[ShrinkTable(vv, x, res, o) EXCEPT ![Len(vv) + 1] =
                    new_tree_vertex(x.location, unwrap_base_ray(vv[x.left_real])[1],
                                    unwrap_base_ray(vv[x.right_real])[2], o)],
               ShrinkTable(vv, x, res, o)>>
        ELSE <<>>)

\* The vertex table after each write of the SplitEvent branch of init_pq on
\* the event x: the three pushes, then the parent of the anchor.
SplitWrites(vv, x, sv_real, o) ==
    <<vv,
      SubSeq(SplitTable(vv, x, sv_real, o), 1, Len(vv) + 1),
      SubSeq(SplitTable(vv, x, sv_real, o), 1, Len(vv) + 2),
      [SplitTable(vv, x, sv_real, o) EXCEPT ![x.anchor_real] = vv[x.anchor_real]],
      SplitTable(vv, x, sv_real, o)>>

\* From the table a to the table b records are only appended, and a record
\* of a differs in b at most by the parent of a Tree record.
OnlyParentAssigned(a, b) ==
    /\ Len(b) >= Len(a)
    /\ \A i \in DOMAIN a :
          \/ b[i] = a[i]
          \/ /\ a[i].kind = "Tree"
             /\ b[i].kind = "Tree"
             /\ b[i] = [a[i] EXCEPT !.parent = b[i].parent]

\* The table b is the table a with its record at index i, a Tree, stored
\* anew as a Root of the same location and time_elapsed.
PromotedAt(a, b, i) ==
    /\ a[i].kind = "Tree"
    /\ b = [a EXCEPT ![i] = Root(a[i].axis.origin, a[i].time_elapsed)]

\* The writes this step of the main loop makes to the vertex table: those of
\* the branch of the entry it popped, ending in the table the step leaves.
StepWrites ==
    CHOOSE w \in
        {ShrinkWrites(ray_vector, event_pq[i],
                      apply_event(vertex_queue,
                                  VertexEvent(event_pq[i].time, event_pq[i].left_vertex,
                                              Len(ray_vector) + 1)),
                      orient) :
            i \in {j \in PopCandidates(event_pq) :
                      Popped(j) /\ event_pq[j].kind = "ShrinkEvent"}}
        \cup
        {SplitWrites(ray_vector, event_pq[i],
                     Rescan(vertex_queue, ray_vector, event_pq[i], orient)[1][4],
                     orient) :
            i \in {j \in PopCandidates(event_pq) :
                      Popped(j) /\ event_pq[j].kind = "SplitEvent"}} :
        w[Len(w)] = ray_vector'

\* This step of the main loop fires an event.
FiresEvent == pc = "loop" /\ Len(event_queue') = Len(event_queue) + 1

\* C26 as stated: the vertex table is append-only, and no write changes a
\* record already in the table except for the parent of a Tree record.
C26_OnlyParentEverAssigned ==
    [][/\ OnlyParentAssigned(ray_vector, ray_vector')
       /\ FiresEvent =>
             /\ StepWrites[Len(StepWrites)] = ray_vector'
             /\ \A k \in 1..(Len(StepWrites) - 1) :
                   OnlyParentAssigned(StepWrites[k], StepWrites[k + 1])]_vars

\* C26 amended: the vertex table is append-only; a write changes a record
\* already in the table only by assigning the parent of a Tree record, or
\* by storing a Root of the same location and time_elapsed over the Tree
\* record that the same iteration appended (the promotion of a collapse).
\* From one iteration to the next the records of the table differ by
\* parents only, and a step that fires no event leaves the table as it is.
C26_OnlyParentOrPromotion ==
    [][/\ OnlyParentAssigned(ray_vector, ray_vector')
       /\ ~FiresEvent => ray_vector' = ray_vector
       /\ FiresEvent =>
             /\ StepWrites[Len(StepWrites)] = ray_vector'
             /\ \A k \in 1..(Len(StepWrites) - 1) :
                   \/ OnlyParentAssigned(StepWrites[k], StepWrites[k + 1])
                   \/ /\ Len(StepWrites[k]) = Len(ray_vector) + 1
                      /\ PromotedAt(StepWrites[k], StepWrites[k + 1],
                                    Len(ray_vector) + 1)]_vars

\* C26 witness: a collapse has stored a Root, an edge event has appended its
\* three records, and a Tree record of the initial table has a parent.
C26_Witness ==
    /\ pc = "loop"
    /\ \E i, j, k \in DOMAIN ray_vector :
          /\ ray_vector[i].kind = "Root"
          /\ ray_vector[j].kind = "Split"
          /\ ray_vector[k].kind = "Tree"
          /\ ray_vector[k].time_elapsed = 0
          /\ ray_vector[k].parent # NoParent

\* The vertex queue of the simulation after the removal that the shrink
\* event logged last by this step makes, before the collapse check.
AfterRemoval ==
    remove_and_set(vertex_queue, event_queue'[Len(event_queue')].merge_from,
                   event_queue'[Len(event_queue')].merge_to)

\* The survivor slot of that removal.
Survivor == rv(vertex_queue, event_queue'[Len(event_queue')].merge_from)

\* The removal leaves the survivor with its left neighbour as its right
\* neighbour.
LoopCollapses == lv(AfterRemoval, Survivor) = rv(AfterRemoval, Survivor)

\* The logged shrink events that annihilated their loop.
Annihilations ==
    {k \in DOMAIN event_queue :
        /\ event_queue[k].kind = "VertexEvent"
        /\ ray_vector[event_queue[k].merge_to].kind = "Root"}

\* Where the records that the event k consumed stand at the distance d.
LoopPoints(k, d) ==
    {point_by_ratio(unwrap_ray(ray_vector[i]), d - time_elapsed(ray_vector[i])) :
        i \in {j \in DOMAIN ray_vector :
                  /\ ray_vector[j].kind = "Tree"
                  /\ ray_vector[j].parent = event_queue[k].merge_to}}

\* The rings of the polygons of a reconstruction.
RingsOfOutput(out) ==
    {out[p].exterior : p \in DOMAIN out}
    \cup UNION {SeqSet(out[p].interiors) : p \in DOMAIN out}

\* What a fired shrink event does by the collapse check: if the removal
\* leaves the survivor between one and the same neighbour, both remaining
\* slots are marked done, the new record is stored as a Root and nothing is
\* scheduled; otherwise the new record is a Tree occupying the active
\* survivor slot.
CollapseHandling ==
    [][Fires("VertexEvent") =>
          /\ LoopCollapses =>
                /\ vertex_queue'[Survivor].done
                /\ vertex_queue'[lv(AfterRemoval, Survivor)].done
                /\ ray_vector'[Len(ray_vector')].kind = "Root"
                /\ Len(ray_vector') = event_queue'[Len(event_queue')].merge_to
                /\ \E i \in PopCandidates(event_pq) :
                      event_pq' = RemoveAt(event_pq, i)
          /\ ~LoopCollapses =>
                /\ ray_vector'[Len(ray_vector')].kind = "Tree"
                /\ ~vertex_queue'[Survivor].done
                /\ get_real_index(vertex_queue', Survivor) = Len(ray_vector')]_vars

\* C27: loop annihilation.  A loop that a fired shrink event annihilated
\* (both remaining slots done, the new record a Root) contributes no ring to
\* a reconstruction at a distance at or past the time of the event: no ring
\* of the output is made of the vertices of that loop.
C27_AnnihilatedLoopGivesNoRing ==
    call.op = "apply_vertex_queue" =>
        \A k \in Annihilations :
            call.offset_distance >= event_queue[k].time =>
                \A ring \in RingsOfOutput(output) :
                    SeqSet(ring) # LoopPoints(k, call.offset_distance)

\* The entries the priority queue may pop that are split events passing the
\* staleness check.
LiveSplits ==
    {i \in PopCandidates(event_pq) :
        /\ event_pq[i].kind = "SplitEvent"
        /\ ~vertex_queue[event_pq[i].anchor_vertex].done
        /\ get_real_index(vertex_queue, event_pq[i].anchor_vertex)
              = event_pq[i].anchor_real}

\* The rescan of the anchor of the entry i gives exactly one candidate, of
\* the scheduled time and location within the tolerance.
RescanMatches(i) ==
    /\ Len(find_split_vertex(event_pq[i].anchor_vertex, vertex_queue, ray_vector,
                             FALSE, orient)) = 1
    /\ Abs(find_split_vertex(event_pq[i].anchor_vertex, vertex_queue, ray_vector,
                             FALSE, orient)[1][1] - event_pq[i].time) < EPS
    /\ Abs(find_split_vertex(event_pq[i].anchor_vertex, vertex_queue, ray_vector,
                             FALSE, orient)[1][2][1] - event_pq[i].location[1]) < EPS
    /\ Abs(find_split_vertex(event_pq[i].anchor_vertex, vertex_queue, ray_vector,
                             FALSE, orient)[1][2][2] - event_pq[i].location[2]) < EPS

\* C28: a popped split event that passes the staleness check fires exactly
\* when the rescan of its anchor gives one candidate of the scheduled time
\* and location within the tolerance; otherwise it is dropped: the vertex
\* table (records and parents), the log and the vertex queue (active slots,
\* links, real-indices) stay as they are and nothing is scheduled.
C28_UnconfirmedSplitIsDropped ==
    [][\A i \in LiveSplits :
          (pc = "loop" /\ Popped(i)) =>
              IF RescanMatches(i)
              THEN Fires("EdgeEvent")
              ELSE /\ ray_vector' = ray_vector
                   /\ event_queue' = event_queue
                   /\ vertex_queue' = vertex_queue
                   /\ event_pq' = RemoveAt(event_pq, i)]_vars

\* C28 witness: an edge event has fired, and a split event that passes the
\* staleness check and whose rescan does not confirm it is next to pop.
C28_Witness ==
    /\ pc = "loop"
    /\ \E k \in DOMAIN event_queue : event_queue[k].kind = "EdgeEvent"
    /\ \E i \in LiveSplits : ~RescanMatches(i)

\* The real-indices held by the active slots of the vertex queue q.
Held(q) == {q[p].index : p \in Active(q)}

\* Every record held by an active slot of q is a Tree without a parent.
ActiveAreOpenTrees(q, vv) ==
    \A r \in Held(q) :
        r \in DOMAIN vv /\ vv[r].kind = "Tree" /\ vv[r].parent = NoParent

\* The Tree records whose parent this step changes.
NewlyParented ==
    {r \in DOMAIN ray_vector :
        /\ ray_vector[r].kind = "Tree"
        /\ ray_vector'[r].kind = "Tree"
        /\ ray_vector'[r].parent # ray_vector[r].parent}

\* The records on which the branch of init_pq that fires the entry x calls
\* set_parent, in the order of the calls: the two merged records and, after
\* a collapse, the last record of the loop; or the anchor of a split.
ParentTargets(x) ==
    IF x.kind = "ShrinkEvent"
    THEN <<x.left_real, x.right_real>>
         \o (IF apply_event(vertex_queue,
                            VertexEvent(x.time, x.left_vertex, Len(ray_vector) + 1))[2]
             THEN <<apply_event(vertex_queue,
                                VertexEvent(x.time, x.left_vertex,
                                            Len(ray_vector) + 1))[3]>>
             ELSE <<>>)
    ELSE <<x.anchor_real>>

\* No two entries of the sequence s are equal.
Distinct(s) == \A a, b \in DOMAIN s : a # b => s[a] # s[b]

\* C29: the record held by an active slot of the vertex queue is always a
\* Tree without a parent; a step of the simulation assigns the parent of a
\* Tree record only when it fires an event, only to records that active
\* slots held before the step and none holds after it, each of them once;
\* a parent that is set is never assigned again, and a Tree record is
\* appended without a parent.
C29_ParentAssignedOnceWhenConsumed ==
    [][/\ ActiveAreOpenTrees(vertex_queue, ray_vector)
       /\ ActiveAreOpenTrees(vertex_queue', ray_vector')
       /\ (pc = "loop" /\ pc' = "loop") =>
             /\ \A r \in WithParent(ray_vector) : ray_vector'[r] = ray_vector[r]
             /\ NewlyParented # {} => FiresEvent
             /\ NewlyParented \subseteq Held(vertex_queue) \ Held(vertex_queue')
             /\ \A r \in DOMAIN ray_vector' \ DOMAIN ray_vector :
                   ray_vector'[r].kind = "Tree" => ray_vector'[r].parent = NoParent
             /\ \A i \in PopCandidates(event_pq) :
                   (Popped(i) /\ FiresEvent) =>
                       /\ Distinct(ParentTargets(event_pq[i]))
                       /\ SeqSet(ParentTargets(event_pq[i])) = NewlyParented]_vars

\* C29 witness: in the main loop, a split has given its anchor a parent, a
\* collapse has given the records of its loop their Root, and active
\* slots, all holding Trees without a parent, are left.
C29_Witness ==
    /\ pc = "loop"
    /\ ActiveSlots(vertex_queue) > 0
    /\ ActiveAreOpenTrees(vertex_queue, ray_vector)
    /\ Cardinality({ray_vector[r].parent : r \in
          {s \in WithParent(ray_vector) : ray_vector[ray_vector[s].parent].kind = "Root"}}) >= 1
    /\ \E r \in WithParent(ray_vector) : ray_vector[ray_vector[r].parent].kind = "Split"
    /\ Cardinality(WithParent(ray_vector)) >= 4

\* The state is the return of a reconstruction by apply_vertex_queue.
Reconstructed == pc = "built" /\ call # NoCall /\ call.op = "apply_vertex_queue"

\* The rings apply_vertex_queue emits in that reconstruction, in emission
\* order, before it tells exteriors from holes.
EmittedRings ==
    CollectRings(iter(get_vertex_queue(initial_vertex_queue, event_queue,
                                       call.offset_distance)),
                 ray_vector, call.offset_distance, <<>>, <<>>, NoParent)

IsCounterClockwise(ls) == signed_area(ls) > 0

IsClockwise(ls) == signed_area(ls) < 0

\* The exterior ring ext contains a point of the ring ls.
HoldsPointOf(ext, ls) == \E k \in DOMAIN ls : Inside(ext, ls[k])

\* The place, among the counter-clockwise rings of lsv in emission order,
\* of the first that contains a point of ls; 0 if none does.
FirstHolder(lsv, ls) ==
    IF \E p \in DOMAIN SelectSeq(lsv, IsCounterClockwise) :
           HoldsPointOf(SelectSeq(lsv, IsCounterClockwise)[p], ls)
    THEN CHOOSE p \in DOMAIN SelectSeq(lsv, IsCounterClockwise) :
           /\ HoldsPointOf(SelectSeq(lsv, IsCounterClockwise)[p], ls)
           /\ \A p2 \in 1..(p - 1) :
                 ~HoldsPointOf(SelectSeq(lsv, IsCounterClockwise)[p2], ls)
    ELSE 0

\* The clockwise rings of lsv, in emission order, whose first holder is p.
HolesOf(lsv, p) ==
    SelectSeq(lsv, LAMBDA ls : IsClockwise(ls) /\ FirstHolder(lsv, ls) = p)

Drawn == pc = "returned" /\ call.op = "to_linestring"

\* The Tree records of the vertex table vv.
TreeRecords(vv) == {i \in DOMAIN vv : vv[i].kind = "Tree"}

\* The segment of the Tree record i: from its location to the location of
\* its parent, or to the point of ratio 5 on its axis when it has none.
SegmentOf(vv, i) ==
    <<vv[i].axis.origin,
      IF vv[i].parent = NoParent
      THEN point_by_ratio(vv[i].axis, 5 * Scale)
      ELSE inner_location(vv[vv[i].parent])>>

\* C31: to_linestring returns exactly one two-point segment for every Tree
\* record of the vertex table, from the record's location to its parent's
\* location or, without a parent, to the point of ratio 5 on its axis, and
\* no other segment: every segment occurs as often among the line strings
\* returned as among the Tree records.
C31_OneSegmentPerTree ==
    Drawn =>
        /\ Len(output) = Cardinality(TreeRecords(ray_vector))
        /\ \A i \in TreeRecords(ray_vector) :
              Cardinality({k \in DOMAIN output : output[k] = SegmentOf(ray_vector, i)})
                = Cardinality({j \in TreeRecords(ray_vector) :
                                  SegmentOf(ray_vector, j) = SegmentOf(ray_vector, i)})
        /\ \A k \in DOMAIN output :
              \E i \in TreeRecords(ray_vector) : output[k] = SegmentOf(ray_vector, i)

\* C31 witness: to_linestring has drawn a skeleton whose table holds a Root
\* and a Split record and Tree records with and without a parent.
C31_Witness ==
    /\ Drawn
    /\ \E i \in DOMAIN ray_vector : ray_vector[i].kind = "Split"
    /\ \E i \in DOMAIN ray_vector : ray_vector[i].kind = "Root"
    /\ WithParent(ray_vector) # {}
    /\ Len(output) > Cardinality(WithParent(ray_vector))

\* The vertex queues a and b have the same active slots, with the same
\* pointer-indices, neighbours and real-indices.
SameTopology(a, b) ==
    /\ Active(a) = Active(b)
    /\ \A p \in Active(a) :
          /\ a[p].index = b[p].index
          /\ a[p].left = b[p].left
          /\ a[p].right = b[p].right

\* C32: whenever the simulation has logged some events, applying them in
\* order to the initial vertex queue (apply_event, then cleanup, for each)
\* gives the active slots, pointer-indices, neighbours and real-indices of
\* the simulation's vertex queue; as every prefix of the final log is the
\* log of some state of the simulation, this is the replay of every prefix.
C32_ReplayEquivalence ==
    pc \in {"loop", "built"} =>
        SameTopology(ReplayAll(initial_vertex_queue, event_queue), vertex_queue)

\* C32 witness: the simulation has fired a vertex event and an edge event
\* and still has active slots, other than those of the initial queue.
C32_Witness ==
    /\ pc = "loop"
    /\ \E k \in DOMAIN event_queue : event_queue[k].kind = "EdgeEvent"
    /\ \E k \in DOMAIN event_queue : event_queue[k].kind = "VertexEvent"
    /\ Active(vertex_queue) # {}
    /\ ~SameTopology(initial_vertex_queue, vertex_queue)

\* The records of the initial vertices: those the slots of the initial
\* vertex queue hold.
InitialRecords(initial) == {initial[p].index : p \in DOMAIN initial}

\* The entries this step of the main loop adds to the priority queue.
ScheduledByStep ==
    {event_pq'[k] : k \in Len(event_pq)..Len(event_pq')}

\* The Split records of the vertex table vv.
SplitRecords(vv) == {i \in DOMAIN vv : vv[i].kind = "Split"}

\* The anchors of the pending split events and of the fired edge events
\* are initial vertices, and no vertex is the anchor of two fired edge
\* events.
AnchorsAreInitial(initial, pq, log, vv) ==
    /\ \A k \in DOMAIN pq :
          pq[k].kind = "SplitEvent" =>
              /\ pq[k].anchor_real \in InitialRecords(initial)
              /\ initial[pq[k].anchor_vertex].index = pq[k].anchor_real
    /\ \A i \in SplitRecords(vv) : vv[i].anchor \in InitialRecords(initial)
    /\ \A i, j \in SplitRecords(vv) : i # j => vv[i].anchor # vv[j].anchor
    /\ \A k, l \in EdgeEvents(log) : k # l => log[k].split_from # log[l].split_from
    /\ Cardinality(SplitRecords(vv)) = Cardinality(EdgeEvents(log))
    /\ {vv[i].anchor : i \in SplitRecords(vv)}
          = {initial[log[k].split_from].index : k \in EdgeEvents(log)}

\* C33: an iteration of the main loop schedules shrink events only, so the
\* split events are those of the initial population; the anchor of every
\* pending split event and of every fired edge event is an initial vertex,
\* and no initial vertex is the anchor of two fired edge events.
C33_SplitsOnlyFromInitialVertices ==
    [][/\ (pc = "loop" /\ pc' = "loop") =>
             \A e \in ScheduledByStep : e.kind = "ShrinkEvent"
       /\ pc' \in {"loop", "built"} =>
             AnchorsAreInitial(initial_vertex_queue', event_pq', event_queue',
                               ray_vector')]_vars

\* C33 witness: in the main loop an edge event has fired, a split event of
\* another anchor is still pending, and events scheduled after the
\* initial population are pending too.
C33_Witness ==
    /\ pc = "loop"
    /\ EdgeEvents(event_queue) # {}
    /\ \E k \in DOMAIN event_pq :
          /\ event_pq[k].kind = "SplitEvent"
          /\ \A l \in EdgeEvents(event_queue) :
                event_queue[l].split_from # event_pq[k].anchor_vertex
    /\ \E k \in DOMAIN event_pq :
          /\ event_pq[k].kind = "ShrinkEvent"
          /\ event_pq[k].left_real \notin InitialRecords(initial_vertex_queue)

\* The rays a and b lie on one supporting line and point in opposite
\* directions.
Opposed(a, b) ==
    /\ RawOuter(a.angle, b.angle) = 0
    /\ RawOuter(a.angle, CSub(b.origin, a.origin)) = 0
    /\ a.angle[1] * b.angle[1] + a.angle[2] * b.angle[2] < 0

\* In the vertex queue q over the table vv, the right_ray of the record of
\* every active slot is opposed to the left_ray of the record of the
\* slot's right neighbour.
EdgesShared(q, vv) ==
    \A p \in Active(q) :
        Opposed(vv[get_real_index(q, p)].right_ray,
                vv[get_real_index(q, rv(q, p))].left_ray)

\* C34: in every state, from the construction on, the right_ray of the
\* record of every active slot and the left_ray of the record of its right
\* neighbour lie on the same supporting line with opposite directions.
C34_NeighboursShareEdgeLine ==
    pc \in {"init_pq", "loop", "built"} => EdgesShared(vertex_queue, ray_vector)

\* C34 witness: in the main loop a vertex event and an edge event have
\* fired and active slots are left, one of them holding a record made by
\* an event.
C34_Witness ==
    /\ pc = "loop"
    /\ \E k \in DOMAIN event_queue : event_queue[k].kind = "EdgeEvent"
    /\ \E k \in DOMAIN event_queue : event_queue[k].kind = "VertexEvent"
    /\ \E p \in Active(vertex_queue) :
          get_real_index(vertex_queue, p) > Len(initial_vertex_queue)
    /\ EdgesShared(vertex_queue, ray_vector)

\* The vertex queue of the reconstruction that has returned.
ReplayedQueue ==
    get_vertex_queue(initial_vertex_queue, event_queue, call.offset_distance)

\* The records made by the vertex events of the log.
MergedRecords(log) ==
    {log[k].merge_to : k \in {j \in DOMAIN log : log[j].kind = "VertexEvent"}}

\* C35 as stated: in every reconstruction at distance d, the record of
\* every slot that is active in get_vertex_queue(d) has time_elapsed <= d.
C35_NoVertexBeforeItsCreation ==
    Reconstructed =>
        \A p \in Active(ReplayedQueue) :
            time_elapsed(ray_vector[get_real_index(ReplayedQueue, p)])
                <= call.offset_distance

\* C35 amended: in every reconstruction at distance d, the record of every
\* slot that is active in get_vertex_queue(d) has time_elapsed <= d within
\* the tolerance, and exactly so unless an edge event made the record.
C35_NoVertexBeforeItsCreationWithinTolerance ==
    Reconstructed =>
        \A p \in Active(ReplayedQueue) :
            /\ time_elapsed(ray_vector[get_real_index(ReplayedQueue, p)])
                  - call.offset_distance < EPS
            /\ (\/ get_real_index(ReplayedQueue, p)
                      \in InitialRecords(initial_vertex_queue)
                \/ get_real_index(ReplayedQueue, p) \in MergedRecords(event_queue))
                  => time_elapsed(ray_vector[get_real_index(ReplayedQueue, p)])
                        <= call.offset_distance

\* C35 witness: a reconstruction at the time of an edge event, in whose
\* vertex queue an active slot holds a child of that event with a
\* time_elapsed later than the distance.
C35_Witness ==
    /\ Reconstructed
    /\ \E k \in EdgeEvents(event_queue) :
          /\ event_queue[k].time = call.offset_distance
          /\ \E p \in Active(ReplayedQueue) :
                /\ get_real_index(ReplayedQueue, p)
                      \in {event_queue[k].split_to_left, event_queue[k].split_to_right}
                /\ time_elapsed(ray_vector[get_real_index(ReplayedQueue, p)])
                      > call.offset_distance

=============================================================================
